---- MODULE Spec2Model ----
(***************************************************************************)
(* Model of the two MCP protocol clients of the repository:                *)
(*   - src/src/mcp_tools.py: the process-global client of the LangGraph    *)
(*     pipeline (_request_id, _initialized, _call_mcp, the five tools);    *)
(*   - src/src/mcp_client_production.py: the class MCPClientProduction     *)
(*     (request_id, initialized, _make_request, initialize, call_tool,     *)
(*     list_tools, query_data).                                            *)
(* Response bodies are sequences of tokens: the six characters "data: ",   *)
(* a newline, a blank, a run of other text, or a one-line JSON object.     *)
(* Python values are records tagged with their type in the field ty.       *)
(***************************************************************************)
EXTENDS Integers, Sequences, FiniteSets, TLC

\* Bounds of the model.
MaxRequests == 3
MaxBodyLen == 5
MaxTTL == 2
MaxTime == 3
MaxColumns == 2
MaxRows == 2
MaxListingLen == 4
MaxSweepRequests == 5

VARIABLES
    procs,           \* the threads or processes that run at the same time
    program,         \* the entry point of the process: "graph" or "main"
    CDATA_CATALOG,   \* config.CDATA_CATALOG: NoCatalog or a catalog name
    _request_id,     \* mcp_tools._request_id
    _initialized,    \* mcp_tools._initialized
    request_id,      \* MCPClientProduction.request_id
    initialized,     \* MCPClientProduction.initialized
    sent,            \* the requests POSTed to the gateway so far, in order
    last,            \* the last operation and how it ended
    body,            \* the response body handed to the decoders
    sendT,           \* what _call_mcp made of body
    sendP,           \* what _make_request made of body
    SCHEMA_CACHE_TTL, \* config.SCHEMA_CACHE_TTL, in ticks of the clock
    now,             \* time.time(), in ticks
    cache_file,      \* schema_cache.CACHE_FILE: absent, or its mtime and content
    tool_result,     \* the tool response handed to the extractors
    text_out,        \* what mcp_tools._extract_text made of tool_result
    data_out,        \* what MCPClientProduction.query_data made of tool_result
    results_out,     \* what gatherer._extract_query_results made of tool_result
    catalogs_text,   \* the text of a getCatalogs response
    catalog_names    \* the catalog names discover_and_cache reads in it

vars == <<procs, program, CDATA_CATALOG, _request_id, _initialized, request_id,
          initialized, sent, last, body, sendT, sendP, SCHEMA_CACHE_TTL, now,
          cache_file, tool_result, text_out, data_out, results_out,
          catalogs_text, catalog_names>>

sessionVars == <<procs, program, CDATA_CATALOG, _request_id, _initialized,
                 request_id, initialized, sent, last>>

decodeVars == <<body, sendT, sendP>>

cacheVars == <<SCHEMA_CACHE_TTL, now, cache_file>>

extractVars == <<tool_result, text_out, data_out, results_out>>

parseVars == <<catalogs_text, catalog_names>>

otherVars == <<decodeVars, cacheVars, extractVars, parseVars>>

-----------------------------------------------------------------------------
\* Python values.

PyNone == [ty |-> "None"]

PyStr(s) == [ty |-> "str", s |-> s]

\* str(v): the stringification of a value; a string is its own.
StrOf(v) == IF v.ty = "str" THEN v ELSE [ty |-> "str", repr |-> v]

\* A string that is the JSON text of the document doc.
JsonText(doc) == [ty |-> "str", json |-> doc]

PyBool(b) == [ty |-> "bool", b |-> b]

PyList(l) == [ty |-> "list", l |-> l]

\* {} : a mapping with no key.
EmptyDict == [ty |-> "dict"]

PyInt(n) == [ty |-> "int", n |-> n]

\* {"type": "text", "text": t} : a text entry of a tool response.
TextItem(t) == [ty |-> "dict", type |-> "text", text |-> PyStr(t)]

\* {"content": [{"type": "text", "text": t}]} : a tool response envelope.
TextResponse(t) == [ty |-> "dict", content |-> PyList(<<TextItem(t)>>)]

\* How an operation ends.
Return(v) == [kind |-> "return", val |-> v]

Raise(exc, msg) == [kind |-> "raise", exc |-> exc, msg |-> msg]

NotCalled == [kind |-> "none"]

-----------------------------------------------------------------------------
\* JSON-RPC response objects: {"jsonrpc":"2.0","id":n,"result"?:r,"error"?:e}.

\* The "error" member: absent, null, {} , {"code": -1} or {"message": "boom"}.
ErrorKinds == {"absent", "null", "empty", "nomsg", "msg"}

Absent == [ty |-> "absent"]

Results == {TextResponse("T1"), TextResponse("T2"), TextResponse("Q1")}

JsonObj(e, r) == [error |-> e, result |-> r]

JsonObjs == {JsonObj(e, r) : e \in ErrorKinds, r \in {Absent} \cup Results}

\* Mutant of Truthy: only an error object with a message counts.
TruthyOnlyWithMessage(e) == e = "msg"

\* bool(result["error"]) of Python: null and the empty object are falsy.
Truthy(e) == e \in {"nomsg", "msg"}

\* result["error"].get("message", dflt)
ErrorMessage(e, dflt) == IF e = "msg" THEN "boom" ELSE dflt

-----------------------------------------------------------------------------
\* Body tokens and the string operations of the decoders.

D == [k |-> "data"]          \* the six characters 'data: '
NL == [k |-> "nl"]           \* '\n'
SP == [k |-> "sp"]           \* ' '
TEXT == [k |-> "text"]       \* other text, such as 'event: message'
DATACOLON == [k |-> "datacolon"]  \* 'data:', what strip() leaves of a final 'data: '
J(o) == [k |-> "json", obj |-> o] \* a JSON object on one line
JHead(o) == [k |-> "jhead", obj |-> o] \* the text of a JSON object up to a place between two of its tokens
JTail(o) == [k |-> "jtail", obj |-> o] \* the text of that JSON object from there on

IsSpace(t) == t.k \in {"nl", "sp"}

RECURSIVE LStrip(_)
LStrip(s) == IF s # <<>> /\ IsSpace(Head(s)) THEN LStrip(Tail(s)) ELSE s

RECURSIVE RStrip(_)
RStrip(s) ==
    IF s = <<>> THEN s
    ELSE LET n == Len(s) IN
         IF IsSpace(s[n]) THEN RStrip(SubSeq(s, 1, n - 1))
         ELSE IF s[n] = D THEN SubSeq(s, 1, n - 1) \o <<DATACOLON>>
         ELSE s

\* str.strip()
Strip(s) == LStrip(RStrip(s))

\* str.split("\n"): the lines of s, at least one.
RECURSIVE SplitFrom(_, _)
SplitFrom(s, cur) ==
    IF s = <<>> THEN <<cur>>
    ELSE IF Head(s) = NL THEN <<cur>> \o SplitFrom(Tail(s), <<>>)
    ELSE SplitFrom(Tail(s), Append(cur, Head(s)))

Split(s) == SplitFrom(s, <<>>)

\* str.startswith("data: ")
StartsWithData(s) == s # <<>> /\ Head(s) = D

\* json.loads(s): s, blanks around it aside, is one JSON object, or the parse
\* fails. The object may have blanks and newlines between two of its tokens.
JsonLoads(s) ==
    LET t == Strip(s) IN
    IF Len(t) = 1 /\ t[1].k = "json" THEN [ok |-> TRUE, obj |-> t[1].obj]
    ELSE IF /\ Len(t) >= 2
            /\ t[1].k = "jhead"
            /\ t[Len(t)] = JTail(t[1].obj)
            /\ \A i \in 2..(Len(t) - 1) : IsSpace(t[i])
         THEN [ok |-> TRUE, obj |-> t[1].obj]
    ELSE [ok |-> FALSE]

-----------------------------------------------------------------------------
\* Gateway responses to one HTTP POST.

\* requests raises (connection failure, timeout): no response at all.
NetworkFailure == [status |-> "neterr"]

\* A non-2xx status: raise_for_status() raises HTTPError.
HttpError == [status |-> "http"]

\* A 2xx response with body b.
Ok(b) == [status |-> "ok", body |-> b]

-----------------------------------------------------------------------------
\* mcp_tools._call_mcp, from the response on.

\* Mutant of ScanT: the prefix is not cut off the line.
RECURSIVE ScanTKeepsPrefix(_, _)
ScanTKeepsPrefix(lines, json_str) ==
    IF lines = <<>> THEN json_str
    ELSE LET line == Head(lines) IN
         IF StartsWithData(line) THEN ScanTKeepsPrefix(Tail(lines), Strip(line))
         ELSE ScanTKeepsPrefix(Tail(lines), json_str)

\* Mutant of ScanT: the first 'data: ' line wins.
RECURSIVE ScanTFirstWins(_, _)
ScanTFirstWins(lines, json_str) ==
    IF lines = <<>> THEN json_str
    ELSE LET line == Head(lines) IN
         IF StartsWithData(line) /\ json_str = <<>>
         THEN ScanTFirstWins(Tail(lines), Strip(Tail(line)))
         ELSE ScanTFirstWins(Tail(lines), json_str)

\* for line in text.split("\n"): if line.startswith("data: "): json_str = line[6:].strip()
RECURSIVE ScanT(_, _)
ScanT(lines, json_str) ==
    IF lines = <<>> THEN json_str
    ELSE LET line == Head(lines) IN
         IF StartsWithData(line) THEN ScanT(Tail(lines), Strip(Tail(line)))
         ELSE ScanT(Tail(lines), json_str)

\* The string _call_mcp hands to json.loads.
CallMcpJsonStr(b) ==
    LET text == Strip(b)
        json_str == ScanT(Split(text), <<>>)
    IN  IF json_str = <<>> THEN text ELSE json_str

\* Mutant of CallMcpResult: result.get("result")
CallMcpResultNone(obj) == IF obj.result = Absent THEN PyNone ELSE obj.result

\* result.get("result", {})
CallMcpResult(obj) == IF obj.result = Absent THEN EmptyDict ELSE obj.result

\* The default of result['error'].get('message', 'Unknown').
CallMcpDefaultMessage == "Unknown"

\* json.loads, then the error check and the return of _call_mcp.
CallMcpInterpret(parsed) ==
    IF ~parsed.ok THEN Raise("JSONDecodeError", "parse")
    ELSE IF parsed.obj.error # "absent" /\ Truthy(parsed.obj.error)
         THEN Raise("RuntimeError",
                    ErrorMessage(parsed.obj.error, CallMcpDefaultMessage))
    ELSE Return(CallMcpResult(parsed.obj))

CallMcpOutcome(resp) ==
    IF resp.status = "neterr" THEN Raise("RequestException", "network")
    ELSE IF resp.status = "http" THEN Raise("HTTPError", "status")
    ELSE CallMcpInterpret(JsonLoads(CallMcpJsonStr(resp.body)))

-----------------------------------------------------------------------------
\* MCPClientProduction._make_request, from the response on.

\* if content.startswith("data: "): content = content.replace("data: ", "", 1).strip()
StripLeadingData(content) ==
    IF StartsWithData(content) THEN Strip(Tail(content)) ELSE content

\* for line in lines: if line.startswith("data: "): ... elif line.strip() and not json_str: ...
RECURSIVE ScanP(_, _)
ScanP(lines, json_str) ==
    IF lines = <<>> THEN json_str
    ELSE LET line == Head(lines) IN
         IF StartsWithData(line) THEN ScanP(Tail(lines), Strip(Tail(line)))
         ELSE IF Strip(line) # <<>> /\ json_str = <<>>
              THEN ScanP(Tail(lines), Strip(line))
         ELSE ScanP(Tail(lines), json_str)

\* The string _make_request hands to json.loads.
MakeRequestJsonStr(b) ==
    LET content == StripLeadingData(Strip(b))
    IN  ScanP(Split(content), <<>>)

\* result.get("result")
MakeRequestResult(obj) == IF obj.result = Absent THEN PyNone ELSE obj.result

\* The default of result['error'].get('message', 'Unknown error').
MakeRequestDefaultMessage == "Unknown error"

\* json.loads, then the error check and the return of _make_request.
MakeRequestInterpret(parsed) ==
    IF ~parsed.ok THEN Raise("Exception", "Failed to parse MCP response")
    ELSE IF parsed.obj.error # "absent" /\ Truthy(parsed.obj.error)
         THEN Raise("Exception",
                    ErrorMessage(parsed.obj.error, MakeRequestDefaultMessage))
    ELSE Return(MakeRequestResult(parsed.obj))

MakeRequestOutcome(resp) ==
    IF resp.status \in {"neterr", "http"}
    THEN Raise("Exception", "MCP request failed")
    ELSE MakeRequestInterpret(JsonLoads(MakeRequestJsonStr(resp.body)))

-----------------------------------------------------------------------------
\* The decoders on their own: every body of at most MaxBodyLen tokens, and
\* every JSON-RPC response object in each of its framings.

NoCatalog == "(unset)"

JA == J(JsonObj("absent", TextResponse("T1")))

JB == J(JsonObj("absent", TextResponse("T2")))

JQ == J(JsonObj("absent", TextResponse("Q1")))

Alphabet == {D, NL, SP, TEXT, JA, JB}

\* J as raw JSON, as one 'data: ' line, and as one 'data: ' line ending in a newline.
Framings(o) == {<<J(o)>>, <<D, J(o)>>, <<D, J(o), NL>>}

\* A server-sent-event stream of two events: 'event: message', the 'data: '
\* line and a blank line, twice.
SseStream(o1, o2) ==
    <<TEXT, NL, D, J(o1), NL, NL, TEXT, NL, D, J(o2), NL, NL>>

\* J as raw JSON spread over several lines, as a pretty printer writes it.
SeveralLines(o) ==
    {<<JHead(o), NL, JTail(o)>>, <<JHead(o), NL, SP, JTail(o), NL>>,
     <<JHead(o), SP, JTail(o)>>}

Bodies ==
    UNION {[1..n -> Alphabet] : n \in 0..MaxBodyLen}
        \cup UNION {Framings(o) : o \in JsonObjs}
        \cup UNION {SeveralLines(o) : o \in JsonObjs}
        \cup {SseStream(o1, o2) : o1, o2 \in JsonObjs}

\* No cache file.
NoFile == [exists |-> FALSE]

\* A process that runs alone, one call after the other.
NoProcs == <<>>

CacheIdle ==
    /\ SCHEMA_CACHE_TTL = MaxTTL
    /\ now = 0
    /\ cache_file = NoFile

ExtractIdle ==
    /\ tool_result = PyNone
    /\ text_out = NotCalled
    /\ data_out = NotCalled
    /\ results_out = NotCalled

ParseIdle ==
    /\ catalogs_text = <<>>
    /\ catalog_names = NotCalled

SessionIdle ==
    /\ procs = NoProcs
    /\ program = "graph"
    /\ CDATA_CATALOG = NoCatalog
    /\ _request_id = 0
    /\ _initialized = FALSE
    /\ request_id = 0
    /\ initialized = FALSE
    /\ sent = <<>>
    /\ last = NotCalled

InitDecode ==
    /\ SessionIdle
    /\ CacheIdle
    /\ ExtractIdle
    /\ ParseIdle
    /\ body \in Bodies
    /\ sendT = NotCalled
    /\ sendP = NotCalled

\* _call_mcp receives body in a 2xx response.
CallMcpDecodes ==
    /\ sendT = NotCalled
    /\ sendT' = CallMcpOutcome(Ok(body))
    /\ UNCHANGED <<sessionVars, body, sendP, cacheVars, extractVars, parseVars>>

\* _make_request receives body in a 2xx response.
MakeRequestDecodes ==
    /\ sendP = NotCalled
    /\ sendP' = MakeRequestOutcome(Ok(body))
    /\ UNCHANGED <<sessionVars, body, sendT, cacheVars, extractVars, parseVars>>

NextDecode == CallMcpDecodes \/ MakeRequestDecodes

SpecDecode == InitDecode /\ [][NextDecode]_vars

-----------------------------------------------------------------------------
\* The sessions: the operations of the two clients against the gateway.

ToolNames == {"getCatalogs", "getSchemas", "getTables", "getColumns", "queryData"}

\* The tool names handed to MCPClientProduction.call_tool.
CallToolNames == {"getCatalogs", "queryData"}

Catalogs == {NoCatalog, "AcmeCo"}

\* The responses the gateway gives in the sessions: no response, a non-2xx
\* status, a result as raw JSON and as an event stream, a remote error, and
\* a body that is no JSON.
Responses ==
    {NetworkFailure, HttpError,
     Ok(<<JA>>), Ok(<<TEXT, NL, D, JQ, NL, NL>>),
     Ok(<<J(JsonObj("msg", Absent))>>), Ok(<<TEXT>>)}

\* One request on the wire: its id, method and tool name, whether send
\* returned normally from it, and the operation that sent it.
Request(id, method, name, out, op) ==
    [id |-> id, method |-> method, name |-> name,
     ok |-> (out.kind = "return"), op |-> op]

\* Mutant of CallMcp: the counter advances only when the request succeeds.
CallMcpKeepsIdOnFailure(rid, method, name, resp, op) ==
    LET out == CallMcpOutcome(resp) IN
    [rid |-> IF out.kind = "return" THEN rid + 1 ELSE rid,
     req |-> Request(rid + 1, method, name, out, op), out |-> out]

\* mcp_tools._call_mcp: the counter after it, the request it sent, how it ended.
CallMcp(rid, method, name, resp, op) ==
    LET out == CallMcpOutcome(resp) IN
    [rid |-> rid + 1, req |-> Request(rid + 1, method, name, out, op), out |-> out]

\* Mutant of EnsureInitialized: no check of the flag.
EnsureInitializedUnguarded(rid, init, resp, op) ==
    LET c == CallMcp(rid, "initialize", "-", resp, op) IN
    [rid |-> c.rid, init |-> (init \/ c.out.kind = "return"), reqs |-> <<c.req>>,
     out |-> IF c.out.kind = "return" THEN Return(PyNone) ELSE c.out]

\* Mutant of EnsureInitialized: the flag is set before the request is sent.
EnsureInitializedFlagFirst(rid, init, resp, op) ==
    IF ~init
    THEN LET c == CallMcp(rid, "initialize", "-", resp, op) IN
         [rid |-> c.rid, init |-> TRUE, reqs |-> <<c.req>>,
          out |-> IF c.out.kind = "return" THEN Return(PyNone) ELSE c.out]
    ELSE [rid |-> rid, init |-> init, reqs |-> <<>>, out |-> Return(PyNone)]

\* mcp_tools._ensure_initialized: the counter and the flag after it, the
\* requests it sent, how it ended.
EnsureInitialized(rid, init, resp, op) ==
    IF ~init
    THEN LET c == CallMcp(rid, "initialize", "-", resp, op) IN
         [rid |-> c.rid, init |-> (c.out.kind = "return"), reqs |-> <<c.req>>,
          out |-> IF c.out.kind = "return" THEN Return(PyNone) ELSE c.out]
    ELSE [rid |-> rid, init |-> init, reqs |-> <<>>, out |-> Return(PyNone)]

\* 'for item in v': the items a loop over v visits, or no loop at all
\* (TypeError) when v is None, a number or a boolean. A string yields its
\* characters and a mapping its keys, which are strings.
Iterate(v) ==
    IF v.ty = "list" THEN [ok |-> TRUE, items |-> v.l]
    ELSE IF v.ty = "str"
         THEN [ok |-> TRUE,
               items |-> IF v = PyStr("") THEN <<>> ELSE <<PyStr("c")>>]
    ELSE IF v.ty = "dict"
         THEN [ok |-> TRUE,
               items |-> IF DOMAIN v = {"ty"} THEN <<>>
                         ELSE <<PyStr(CHOOSE k \in DOMAIN v : k # "ty")>>]
    ELSE [ok |-> FALSE]

\* The loop has visited every entry and met no text entry.
Exhausted == [kind |-> "exhausted"]

\* The loop over the content entries: item.get("text", "") of the first
\* entry whose type is "text"; an entry that is no mapping has no get.
RECURSIVE FirstText(_)
FirstText(items) ==
    IF items = <<>> THEN Exhausted
    ELSE LET item == Head(items) IN
         IF item.ty # "dict"
         THEN Raise("AttributeError", "object has no attribute 'get'")
         ELSE IF "type" \in DOMAIN item /\ item.type = "text"
              THEN Return(IF "text" \in DOMAIN item THEN item.text ELSE PyStr(""))
              ELSE FirstText(Tail(items))

\* mcp_tools._extract_text: how it ends on the tool response result.
ExtractText(result) ==
    IF result.ty = "dict" /\ "content" \in DOMAIN result
    THEN LET it == Iterate(result.content) IN
         IF ~it.ok THEN Raise("TypeError", "object is not iterable")
         ELSE LET f == FirstText(it.items) IN
              IF f = Exhausted THEN Return(StrOf(result)) ELSE f
    ELSE Return(StrOf(result))

\* Mutant of InvokeTool: a failed tool call drops the session.
InvokeToolResetsOnFailure(op, name, r1, r2) ==
    LET e == EnsureInitialized(_request_id, _initialized, r1, op) IN
    IF e.out.kind = "raise"
    THEN /\ _request_id' = e.rid
         /\ _initialized' = e.init
         /\ sent' = sent \o e.reqs
         /\ last' = [op |-> op, out |-> e.out]
    ELSE LET c == CallMcp(e.rid, "tools/call", name, r2, op) IN
         /\ _request_id' = c.rid
         /\ _initialized' = (e.init /\ c.out.kind = "return")
         /\ sent' = sent \o e.reqs \o <<c.req>>
         /\ last' = [op |-> op,
                     out |-> IF c.out.kind = "raise" THEN c.out
                             ELSE ExtractText(c.out.val)]

\* Mutant of InvokeTool: a tool call that failed is sent a second time.
InvokeToolRetries(op, name, r1, r2) ==
    LET e == EnsureInitialized(_request_id, _initialized, r1, op) IN
    IF e.out.kind = "raise"
    THEN /\ _request_id' = e.rid
         /\ _initialized' = e.init
         /\ sent' = sent \o e.reqs
         /\ last' = [op |-> op, out |-> e.out]
    ELSE LET c == CallMcp(e.rid, "tools/call", name, r2, op)
             again == CallMcp(c.rid, "tools/call", name, r2, op)
         IN
         /\ _request_id' = IF c.out.kind = "raise" THEN again.rid ELSE c.rid
         /\ _initialized' = e.init
         /\ sent' = IF c.out.kind = "raise"
                    THEN sent \o e.reqs \o <<c.req, again.req>>
                    ELSE sent \o e.reqs \o <<c.req>>
         /\ last' = [op |-> op,
                     out |-> IF c.out.kind = "raise" THEN c.out
                             ELSE ExtractText(c.out.val)]

\* The body of get_schemas, get_tables, get_columns and query_data:
\* _ensure_initialized(), _call_mcp("tools/call", ...), _extract_text(result).
InvokeTool(op, name, r1, r2) ==
    LET e == EnsureInitialized(_request_id, _initialized, r1, op) IN
    IF e.out.kind = "raise"
    THEN /\ _request_id' = e.rid
         /\ _initialized' = e.init
         /\ sent' = sent \o e.reqs
         /\ last' = [op |-> op, out |-> e.out]
    ELSE LET c == CallMcp(e.rid, "tools/call", name, r2, op) IN
         /\ _request_id' = c.rid
         /\ _initialized' = e.init
         /\ sent' = sent \o e.reqs \o <<c.req>>
         /\ last' = [op |-> op,
                     out |-> IF c.out.kind = "raise" THEN c.out
                             ELSE ExtractText(c.out.val)]

ToolsIdle ==
    /\ program = "graph"
    /\ _request_id < MaxRequests

\* Mutant of get_catalogs: the configured catalog is not looked at.
GetCatalogsAsksGateway(r1, r2) ==
    /\ ToolsIdle
    /\ InvokeTool("get_catalogs", "getCatalogs", r1, r2)
    /\ UNCHANGED <<procs, program, CDATA_CATALOG, request_id, initialized, otherVars>>

\* mcp_tools.get_catalogs
get_catalogs(r1, r2) ==
    /\ ToolsIdle
    /\ IF CDATA_CATALOG # NoCatalog
       THEN LET e == EnsureInitialized(_request_id, _initialized, r1,
                                       "get_catalogs") IN
            /\ _request_id' = e.rid
            /\ _initialized' = e.init
            /\ sent' = sent \o e.reqs
            /\ last' = [op |-> "get_catalogs",
                        out |-> IF e.out.kind = "raise" THEN e.out
                                ELSE Return([ty |-> "str",
                                             fmt |-> "Available catalogs:\n- {}",
                                             arg |-> CDATA_CATALOG])]
       ELSE InvokeTool("get_catalogs", "getCatalogs", r1, r2)
    /\ UNCHANGED <<procs, program, CDATA_CATALOG, request_id, initialized, otherVars>>

\* mcp_tools.get_schemas
get_schemas(r1, r2) ==
    /\ ToolsIdle
    /\ InvokeTool("get_schemas", "getSchemas", r1, r2)
    /\ UNCHANGED <<procs, program, CDATA_CATALOG, request_id, initialized, otherVars>>

\* mcp_tools.get_tables
get_tables(r1, r2) ==
    /\ ToolsIdle
    /\ InvokeTool("get_tables", "getTables", r1, r2)
    /\ UNCHANGED <<procs, program, CDATA_CATALOG, request_id, initialized, otherVars>>

\* mcp_tools.get_columns
get_columns(r1, r2) ==
    /\ ToolsIdle
    /\ InvokeTool("get_columns", "getColumns", r1, r2)
    /\ UNCHANGED <<procs, program, CDATA_CATALOG, request_id, initialized, otherVars>>

\* mcp_tools.query_data
query_data(r1, r2) ==
    /\ ToolsIdle
    /\ InvokeTool("query_data", "queryData", r1, r2)
    /\ UNCHANGED <<procs, program, CDATA_CATALOG, request_id, initialized, otherVars>>

\* MCPClientProduction._make_request: the counter after it, the request it
\* sent, how it ended.
MakeRequest(rid, method, name, resp, op) ==
    LET out == MakeRequestOutcome(resp) IN
    [rid |-> rid + 1, req |-> Request(rid + 1, method, name, out, op), out |-> out]

ClientIdle ==
    /\ program = "main"
    /\ request_id < MaxRequests

\* MCPClientProduction.initialize
Initialize(resp) ==
    /\ ClientIdle
    /\ LET c == MakeRequest(request_id, "initialize", "-", resp, "initialize") IN
       /\ request_id' = c.rid
       /\ initialized' = IF c.out.kind = "return" THEN TRUE ELSE initialized
       /\ sent' = Append(sent, c.req)
       /\ last' = [op |-> "initialize",
                   out |-> Return(PyBool(c.out.kind = "return"))]
    /\ UNCHANGED <<procs, program, CDATA_CATALOG, _request_id, _initialized, otherVars>>

\* bool(v) of Python for the values a result takes here.
Falsy(v) ==
    v \in {PyNone, EmptyDict, PyStr(""), PyList(<<>>), PyInt(0), PyBool(FALSE)}

\* MCPClientProduction.list_tools
ListTools(resp) ==
    /\ ClientIdle
    /\ LET c == MakeRequest(request_id, "tools/list", "-", resp, "list_tools") IN
       /\ request_id' = c.rid
       /\ sent' = Append(sent, c.req)
       /\ last' = [op |-> "list_tools",
                   out |-> IF /\ c.out.kind = "return"
                              /\ ~Falsy(c.out.val)
                              /\ "tools" \in DOMAIN c.out.val
                           THEN Return(PyList(c.out.val.tools))
                           ELSE Return(PyList(<<>>))]
    /\ UNCHANGED <<procs, program, CDATA_CATALOG, _request_id, _initialized,
                   initialized, otherVars>>

\* What call_tool returns: the result, or None when _make_request raised.
CallToolValue(out) == IF out.kind = "raise" THEN PyNone ELSE out.val

\* MCPClientProduction.call_tool
CallTool(name, resp) ==
    /\ ClientIdle
    /\ LET c == MakeRequest(request_id, "tools/call", name, resp, "call_tool") IN
       /\ request_id' = c.rid
       /\ sent' = Append(sent, c.req)
       /\ last' = [op |-> "call_tool", out |-> Return(CallToolValue(c.out))]
    /\ UNCHANGED <<procs, program, CDATA_CATALOG, _request_id, _initialized,
                   initialized, otherVars>>

\* The query response {"results": [{"schema": [{"columnName": "Name"}],
\* "rows": [["Acme"]]}]}.
Column(name) == [ty |-> "dict", columnName |-> name]

ResultSet(schema, rows) ==
    [ty |-> "dict", schema |-> PyList(schema), rows |-> PyList(rows)]

QueryResponse(results) == [ty |-> "dict", results |-> PyList(results)]

Q1Doc == QueryResponse(<<ResultSet(<<Column("Name")>>, <<PyList(<<"Acme">>)>>)>>)

\* json.loads(t): the document of a JSON text; "Q1" is the text of Q1Doc,
\* str() of {} , [] or a number is JSON too, other texts are not, and a
\* value that is no string is a TypeError.
TextLoads(t) ==
    IF t.ty # "str"
    THEN Raise("TypeError", "the JSON object must be str, bytes or bytearray")
    ELSE IF "json" \in DOMAIN t THEN Return(t.json)
    ELSE IF "repr" \in DOMAIN t
         THEN IF t.repr \in {EmptyDict, PyList(<<>>)} \/ t.repr.ty = "int"
              THEN Return(t.repr)
              ELSE Raise("JSONDecodeError", "Expecting value")
    ELSE IF t.s = "Q1" THEN Return(Q1Doc)
    ELSE Raise("JSONDecodeError", "Expecting value")

\* The key None of a record: col.get("columnName") without the key.
NoneKey == "None"

\* Mutant of ZipRecord: a repeated name keeps the value of its first column.
ZipRecordFirstWins(column_names, row) ==
    LET n == IF Len(column_names) < Len(row) THEN Len(column_names) ELSE Len(row)
    IN  [c \in {column_names[j] : j \in 1..n} |->
            row[CHOOSE j \in 1..n :
                    /\ column_names[j] = c
                    /\ \A k \in 1..n : column_names[k] = c => j <= k]]

\* dict(zip(column_names, row)): zip stops at the shorter of the two, and a
\* repeated name keeps the value of its last column.
ZipRecord(column_names, row) ==
    LET n == IF Len(column_names) < Len(row) THEN Len(column_names) ELSE Len(row)
    IN  [c \in {column_names[j] : j \in 1..n} |->
            row[CHOOSE j \in 1..n :
                    /\ column_names[j] = c
                    /\ \A k \in 1..n : column_names[k] = c => k <= j]]

\* [dict(zip(column_names, row)) for row in rows]: a row that cannot be
\* iterated is a TypeError.
ZipRows(column_names, rows) ==
    IF \E i \in DOMAIN rows : ~Iterate(rows[i]).ok
    THEN Raise("TypeError", "zip argument #2 must support iteration")
    ELSE Return(PyList([i \in DOMAIN rows |->
                           ZipRecord(column_names, Iterate(rows[i]).items)]))

\* query_data lines 152-157: the text of the first text entry, "" without one.
TextContent(result) ==
    IF result.ty = "dict" /\ "content" \in DOMAIN result
    THEN LET it == Iterate(result.content) IN
         IF ~it.ok THEN Raise("TypeError", "object is not iterable")
         ELSE LET f == FirstText(it.items) IN
              IF f = Exhausted THEN Return(PyStr("")) ELSE f
    ELSE Return(PyStr(""))

\* result_set.get(key, []) on a mapping.
GetOrEmpty(d, key) == IF key \in DOMAIN d THEN d[key] ELSE PyList(<<>>)

\* query_data lines 169-190: the records of a decoded query response.
QueryRecords(response_data) ==
    IF response_data.ty \in {"None", "int", "bool"}
    THEN Raise("TypeError", "argument is not iterable")
    ELSE IF \/ response_data.ty # "dict"
            \/ "results" \notin DOMAIN response_data
            \/ Falsy(response_data.results)
         THEN Return(PyList(<<>>))
    ELSE LET results == response_data.results IN
         IF results.ty # "list"
         THEN Raise(IF results.ty = "dict" THEN "KeyError"
                    ELSE IF results.ty = "str" THEN "AttributeError"
                    ELSE "TypeError", "results[0]")
         ELSE LET result_set == results.l[1] IN
              IF result_set.ty # "dict"
              THEN Raise("AttributeError", "object has no attribute 'get'")
              ELSE LET schema == GetOrEmpty(result_set, "schema")
                       rows == GetOrEmpty(result_set, "rows")
                   IN  IF Falsy(schema) \/ Falsy(rows) THEN Return(PyList(<<>>))
                       ELSE IF ~Iterate(schema).ok \/ ~Iterate(rows).ok
                            THEN Raise("TypeError", "object is not iterable")
                       ELSE LET cols == Iterate(schema).items IN
                            IF \E j \in DOMAIN cols : cols[j].ty # "dict"
                            THEN Raise("AttributeError",
                                       "object has no attribute 'get'")
                            ELSE ZipRows([j \in DOMAIN cols |->
                                             IF "columnName" \in DOMAIN cols[j]
                                             THEN cols[j].columnName
                                             ELSE NoneKey],
                                         Iterate(rows).items)

\* query_data lines 148-190, from the result of call_tool on: the body of
\* the try statement.
QueryDataTry(result) ==
    IF Falsy(result) THEN Return(PyList(<<>>))
    ELSE LET tc == TextContent(result) IN
         IF tc.kind = "raise" THEN tc
         ELSE IF Falsy(tc.val) THEN Return(PyList(<<>>))
         ELSE LET response_data == TextLoads(tc.val) IN
              IF response_data.kind = "raise"
              THEN IF response_data.exc = "JSONDecodeError"
                   THEN Return(PyList(<<>>))
                   ELSE response_data
              ELSE QueryRecords(response_data.val)

\* Mutant of QueryDataOutcome: no handler around the body.
QueryDataUncaught(result) == QueryDataTry(result)

\* MCPClientProduction.query_data from the result of call_tool on: the try
\* statement with its handler 'except Exception: return []'.
QueryDataOutcome(result) ==
    LET t == QueryDataTry(result) IN
    IF t.kind = "raise" THEN Return(PyList(<<>>)) ELSE t

\* content[:2000]: the texts of the model are shorter than 2000 characters.
Truncated(content) == content

\* One block of the text _extract_query_results returns: the records of a
\* result set under the table name of its first column, or the raw content.
TableBlock(table_name, records) == [table |-> table_name, records |-> records]

RawBlock(content) == [raw |-> Truncated(content)]

\* "Gathered data from queries:\n\n" + "\n\n---\n\n".join(results)
Gathered(results) ==
    [ty |-> "str", fmt |-> "Gathered data from queries:\n\n{}", blocks |-> results]

\* gatherer._extract_query_results lines 55-66: the loop over the result
\* sets of one query_data message, results being the blocks so far. A
\* column without "columnName" is a KeyError, which carries the blocks.
RECURSIVE ResultBlocks(_, _)
ResultBlocks(sets, results) ==
    IF sets = <<>> THEN Return(results)
    ELSE LET result_set == Head(sets) IN
         IF result_set.ty # "dict"
         THEN Raise("AttributeError", "object has no attribute 'get'")
         ELSE LET schema == GetOrEmpty(result_set, "schema")
                  rows == GetOrEmpty(result_set, "rows")
              IN  IF Falsy(schema) \/ Falsy(rows)
                  THEN ResultBlocks(Tail(sets), results)
                  ELSE IF ~Iterate(schema).ok
                       THEN Raise("TypeError", "object is not iterable")
                  ELSE LET cols == Iterate(schema).items
                           bad == {j \in DOMAIN cols :
                                      \/ cols[j].ty # "dict"
                                      \/ "columnName" \notin DOMAIN cols[j]}
                       IN  IF bad # {}
                           THEN LET j == CHOOSE j \in bad : \A k \in bad : j <= k
                                IN  IF cols[j].ty # "dict"
                                    THEN Raise("TypeError",
                                               "indices must be integers")
                                    ELSE [kind |-> "raise", exc |-> "KeyError",
                                          msg |-> "columnName",
                                          blocks |-> results]
                           ELSE IF ~Iterate(rows).ok
                                THEN Raise("TypeError", "object is not iterable")
                           ELSE LET col_names ==
                                        [j \in DOMAIN cols |-> cols[j].columnName]
                                    table_name ==
                                        IF "tableName" \in DOMAIN cols[1]
                                        THEN cols[1].tableName ELSE "unknown"
                                    records ==
                                        ZipRows(col_names, Iterate(rows).items)
                                IN  IF records.kind = "raise" THEN records
                                    ELSE ResultBlocks(
                                             Tail(sets),
                                             Append(results,
                                                    TableBlock(table_name,
                                                               records.val)))

\* gatherer._extract_query_results on one message of name "query_data" and
\* of content content.
ExtractQueryResults(content) ==
    IF Falsy(content) THEN Return(PyStr(""))
    ELSE LET data == TextLoads(content) IN
         IF data.kind = "raise"
         THEN IF data.exc = "JSONDecodeError"
              THEN Return(Gathered(<<RawBlock(content)>>))
              ELSE data
         ELSE IF data.val.ty # "dict"
              THEN Raise("AttributeError", "object has no attribute 'get'")
         ELSE LET sets == GetOrEmpty(data.val, "results") IN
              IF ~Iterate(sets).ok
              THEN Raise("TypeError", "object is not iterable")
              ELSE LET r == ResultBlocks(Iterate(sets).items, <<>>) IN
                   IF r.kind = "raise"
                   THEN IF r.exc = "KeyError"
                        THEN Return(Gathered(Append(r.blocks, RawBlock(content))))
                        ELSE r
                   ELSE IF r.val = <<>> THEN Return(PyStr(""))
                        ELSE Return(Gathered(r.val))

\* MCPClientProduction.query_data
QueryData(resp) ==
    /\ ClientIdle
    /\ LET c == MakeRequest(request_id, "tools/call", "queryData", resp,
                            "query_data") IN
       /\ request_id' = c.rid
       /\ sent' = Append(sent, c.req)
       /\ last' = [op |-> "query_data",
                   out |-> QueryDataOutcome(CallToolValue(c.out))]
    /\ UNCHANGED <<procs, program, CDATA_CATALOG, _request_id, _initialized,
                   initialized, otherVars>>

Init ==
    /\ procs = NoProcs
    /\ program \in {"graph", "main"}
    /\ CDATA_CATALOG \in Catalogs
    /\ _request_id = 0
    /\ _initialized = FALSE
    /\ request_id = 0
    /\ initialized = FALSE
    /\ sent = <<>>
    /\ last = NotCalled
    /\ body = <<>>
    /\ sendT = NotCalled
    /\ sendP = NotCalled
    /\ CacheIdle
    /\ ExtractIdle
    /\ ParseIdle

Next ==
    \/ \E r1, r2 \in Responses : get_catalogs(r1, r2)
    \/ \E r1, r2 \in Responses : get_schemas(r1, r2)
    \/ \E r1, r2 \in Responses : get_tables(r1, r2)
    \/ \E r1, r2 \in Responses : get_columns(r1, r2)
    \/ \E r1, r2 \in Responses : query_data(r1, r2)
    \/ \E resp \in Responses : Initialize(resp)
    \/ \E resp \in Responses : ListTools(resp)
    \/ \E name \in CallToolNames, resp \in Responses : CallTool(name, resp)
    \/ \E resp \in Responses : QueryData(resp)

Spec == Init /\ [][Next]_vars

-----------------------------------------------------------------------------
\* The extractors on their own: _extract_text, MCPClientProduction.query_data
\* from the tool response on, and gatherer._extract_query_results on the
\* text the query_data tool returned, over tool responses of every shape.

ColumnNames == {"Name", "Id"}

Schemas ==
    UNION {[1..n -> {Column(c) : c \in ColumnNames}] : n \in 0..MaxColumns}

\* The value in column j of row i of result set k.
Cell(k, i, j) == [set |-> k, row |-> i, col |-> j]

\* The rows of result set k, row i holding lens[i] values.
Rows(k, lens) ==
    [i \in DOMAIN lens |-> PyList([j \in 1..lens[i] |-> Cell(k, i, j)])]

RowLengths == UNION {[1..m -> 0..(MaxColumns + 1)] : m \in 0..MaxRows}

ResultSets(k) ==
    {ResultSet(schema, Rows(k, lens)) : schema \in Schemas, lens \in RowLengths}

\* A second result set of the response.
LaterResultSet == ResultSet(<<Column("Industry")>>, Rows(2, <<1>>))

\* Result sets of other shapes: no mapping, a key missing, schema or rows
\* that are no list, a column that is no mapping or has no name, a row that
\* is no list.
OddResultSets ==
    {PyNone, PyStr("x"),
     [ty |-> "dict", rows |-> PyList(Rows(1, <<1>>))],
     [ty |-> "dict", schema |-> PyList(<<Column("Name")>>)],
     [ty |-> "dict", schema |-> PyInt(1), rows |-> PyList(Rows(1, <<1>>))],
     [ty |-> "dict", schema |-> PyList(<<Column("Name")>>), rows |-> PyInt(1)],
     ResultSet(<<PyStr("Name")>>, Rows(1, <<1>>)),
     ResultSet(<<[ty |-> "dict", tableName |-> "Account"]>>, Rows(1, <<1>>)),
     ResultSet(<<Column("Name")>>, <<PyInt(7)>>)}

\* The documents a text can decode to: query responses of one and of two
\* result sets, and JSON of other shapes.
WellFormedDocs ==
    {QueryResponse(<<rs>>) : rs \in ResultSets(1)}
        \cup {QueryResponse(<<rs, LaterResultSet>>) : rs \in ResultSets(1)}

OddDocs ==
    {QueryResponse(<<rs>>) : rs \in OddResultSets}
        \cup {QueryResponse(<<>>), EmptyDict, PyNone, PyInt(5), PyStr("x"),
              PyList(<<>>),
              [ty |-> "dict", results |-> PyNone],
              [ty |-> "dict", results |-> PyInt(1)],
              [ty |-> "dict", results |-> PyStr("x")],
              [ty |-> "dict", results |-> [ty |-> "dict", a |-> PyInt(1)]]}

Docs == WellFormedDocs \cup OddDocs

\* {"type": type, "text": text} : a content entry.
Item(type, text) == [ty |-> "dict", type |-> type, text |-> text]

\* {"content": content} : a tool response.
Response(content) == [ty |-> "dict", content |-> content]

\* The tool response whose one text entry is the JSON text of doc.
JsonResponse(doc) == Response(PyList(<<Item("text", JsonText(doc))>>))

\* Tool responses of other shapes: no response, no content, a content that
\* is null, a number, a string or a mapping, entries that are no mapping,
\* entries without type or text, a text that is null or a number, and a
\* result that is no mapping.
OddResponses ==
    {PyNone, EmptyDict, PyStr("oops"), PyInt(3), PyList(<<>>),
     TextResponse("T1"), TextResponse(""),
     Response(PyNone), Response(PyInt(1)), Response(PyStr("")),
     Response(PyStr("abc")), Response(EmptyDict),
     Response([ty |-> "dict", a |-> PyInt(1)]),
     Response(PyList(<<>>)),
     Response(PyList(<<PyNone>>)),
     Response(PyList(<<PyStr("x")>>)),
     Response(PyList(<<[ty |-> "dict", text |-> PyStr("T1")]>>)),
     Response(PyList(<<[ty |-> "dict", type |-> "text"]>>)),
     Response(PyList(<<Item("text", PyNone)>>)),
     Response(PyList(<<Item("text", PyInt(4))>>)),
     Response(PyList(<<Item("image", PyStr("T1")), TextItem("T2")>>)),
     Response(PyList(<<Item("image", PyStr("T1"))>>)),
     Response(PyList(<<TextItem("T1"), TextItem("T2")>>)),
     Response(PyList(<<TextItem("T1"), PyNone>>)),
     Response(PyList(<<PyNone, TextItem("T1")>>))}

ToolResults == {JsonResponse(doc) : doc \in Docs} \cup OddResponses

InitExtract ==
    /\ SessionIdle
    /\ body = <<>>
    /\ sendT = NotCalled
    /\ sendP = NotCalled
    /\ CacheIdle
    /\ ParseIdle
    /\ tool_result \in ToolResults
    /\ text_out = NotCalled
    /\ data_out = NotCalled
    /\ results_out = NotCalled

\* _extract_text(result) on the tool response.
ExtractTextApplied ==
    /\ text_out = NotCalled
    /\ text_out' = ExtractText(tool_result)
    /\ UNCHANGED <<sessionVars, decodeVars, cacheVars, parseVars,
                   tool_result, data_out, results_out>>

\* MCPClientProduction.query_data once call_tool has returned the tool
\* response.
QueryDataApplied ==
    /\ data_out = NotCalled
    /\ data_out' = QueryDataOutcome(tool_result)
    /\ UNCHANGED <<sessionVars, decodeVars, cacheVars, parseVars,
                   tool_result, text_out, results_out>>

\* _extract_query_results on the message of the query_data tool, whose
\* content is what _extract_text returned.
ExtractQueryResultsApplied ==
    /\ text_out.kind = "return"
    /\ results_out = NotCalled
    /\ results_out' = ExtractQueryResults(text_out.val)
    /\ UNCHANGED <<sessionVars, decodeVars, cacheVars, parseVars,
                   tool_result, text_out, data_out>>

NextExtract ==
    \/ ExtractTextApplied
    \/ QueryDataApplied
    \/ ExtractQueryResultsApplied

SpecExtract == InitExtract /\ [][NextExtract]_vars

-----------------------------------------------------------------------------
\* The catalog names of a getCatalogs response (schema_cache.py:60-71). The
\* text is a sequence of tokens: a newline, a blank, a double quote, a
\* comma, the seven characters 'catalog', or a run of other characters.

QUOTE == [k |-> "quote"]

COMMA == [k |-> "comma"]

CATALOGWORD == [k |-> "catalog"]

Word(w) == [k |-> "word", w |-> w]

\* A string given by its tokens.
CharText(chars) ==
    IF chars = <<>> THEN PyStr("") ELSE [ty |-> "str", chars |-> chars]

\* The tokens of a string.
Chars(text) ==
    IF "chars" \in DOMAIN text THEN text.chars
    ELSE IF text.s = "" THEN <<>> ELSE <<Word(text.s)>>

\* s.strip(c) for the one character c.
RECURSIVE StripChar(_, _)
StripChar(s, c) ==
    IF s # <<>> /\ Head(s) = c THEN StripChar(Tail(s), c)
    ELSE IF s # <<>> /\ s[Len(s)] = c THEN StripChar(SubSeq(s, 1, Len(s) - 1), c)
    ELSE s

\* line.startswith("catalog")
StartsWithCatalog(line) == line # <<>> /\ Head(line) = CATALOGWORD

\* [line.strip().strip('"').strip(",") for line in catalogs_text.split("\n")
\*  if line.strip() and not line.startswith("catalog")]
ParseCatalogNames(chars) ==
    LET kept == SelectSeq(Split(chars),
                          LAMBDA line : Strip(line) # <<>> /\ ~StartsWithCatalog(line))
    IN  [i \in DOMAIN kept |-> StripChar(StripChar(Strip(kept[i]), QUOTE), COMMA)]

\* for cat in catalog_names: if not cat: continue
SweptNames(names) == SelectSeq(names, LAMBDA cat : cat # <<>>)

\* The characters of a token, and the string of a sequence of tokens.
TokenString(t) ==
    IF t.k = "word" THEN t.w
    ELSE IF t.k = "catalog" THEN "catalog"
    ELSE IF t.k = "quote" THEN "\""
    ELSE IF t.k = "comma" THEN ","
    ELSE IF t.k = "nl" THEN "\n"
    ELSE " "

RECURSIVE NameString(_)
NameString(chars) ==
    IF chars = <<>> THEN "" ELSE TokenString(Head(chars)) \o NameString(Tail(chars))

ListingAlphabet == {NL, SP, QUOTE, COMMA, CATALOGWORD, Word("AcmeCo"), Word("_eu")}

\* 'catalog\nAcmeCo\n\nNordicEnergy\n'
HeaderAndTwo ==
    <<CATALOGWORD, NL, Word("AcmeCo"), NL, NL, Word("NordicEnergy"), NL>>

Listings ==
    UNION {[1..n -> ListingAlphabet] : n \in 0..MaxListingLen} \cup {HeaderAndTwo}

InitParse ==
    /\ SessionIdle
    /\ body = <<>>
    /\ sendT = NotCalled
    /\ sendP = NotCalled
    /\ CacheIdle
    /\ ExtractIdle
    /\ catalogs_text \in Listings
    /\ catalog_names = NotCalled

\* discover_and_cache lines 60-71 on the text of the getCatalogs response.
CatalogNamesParsed ==
    /\ catalog_names = NotCalled
    /\ catalog_names' = Return(SweptNames(ParseCatalogNames(catalogs_text)))
    /\ UNCHANGED <<sessionVars, decodeVars, cacheVars, extractVars, catalogs_text>>

NextParse == CatalogNamesParsed

SpecParse == InitParse /\ [][NextParse]_vars

-----------------------------------------------------------------------------
\* The schema cache (schema_cache.py) and its caller gatherer.gather_node.

PyFloat(n) == [ty |-> "float", n |-> n]

\* json.dump(v): the JSON document of a value. A mapping becomes an object,
\* a list an array, a string a string, a float a number with a fraction
\* part, an integer a number without one, None null.
RECURSIVE JsonDump(_)
JsonDump(v) ==
    IF v.ty = "dict"
    THEN [k \in DOMAIN v |-> IF k = "ty" THEN "object" ELSE JsonDump(v[k])]
    ELSE IF v.ty = "list"
         THEN [ty |-> "array", l |-> [i \in DOMAIN v.l |-> JsonDump(v.l[i])]]
    ELSE IF v.ty = "str"
         THEN [k \in DOMAIN v |-> IF k = "ty" THEN "string" ELSE v[k]]
    ELSE IF v.ty = "float" THEN [ty |-> "number", n |-> v.n, fraction |-> TRUE]
    ELSE IF v.ty = "int" THEN [ty |-> "number", n |-> v.n, fraction |-> FALSE]
    ELSE IF v.ty = "bool" THEN [ty |-> "boolean", b |-> v.b]
    ELSE [ty |-> "null"]

\* Mutant of JsonLoad: every number is read as an integer.
RECURSIVE JsonLoadIntegers(_)
JsonLoadIntegers(d) ==
    IF d.ty = "object"
    THEN [k \in DOMAIN d |-> IF k = "ty" THEN "dict" ELSE JsonLoadIntegers(d[k])]
    ELSE IF d.ty = "array"
         THEN [ty |-> "list", l |-> [i \in DOMAIN d.l |-> JsonLoadIntegers(d.l[i])]]
    ELSE IF d.ty = "string"
         THEN [k \in DOMAIN d |-> IF k = "ty" THEN "str" ELSE d[k]]
    ELSE IF d.ty = "number" THEN PyInt(d.n)
    ELSE IF d.ty = "boolean" THEN PyBool(d.b)
    ELSE PyNone

\* json.load(f): the value of a JSON document.
RECURSIVE JsonLoad(_)
JsonLoad(d) ==
    IF d.ty = "object"
    THEN [k \in DOMAIN d |-> IF k = "ty" THEN "dict" ELSE JsonLoad(d[k])]
    ELSE IF d.ty = "array"
         THEN [ty |-> "list", l |-> [i \in DOMAIN d.l |-> JsonLoad(d.l[i])]]
    ELSE IF d.ty = "string"
         THEN [k \in DOMAIN d |-> IF k = "ty" THEN "str" ELSE d[k]]
    ELSE IF d.ty = "number"
         THEN IF d.fraction THEN PyFloat(d.n) ELSE PyInt(d.n)
    ELSE IF d.ty = "boolean" THEN PyBool(d.b)
    ELSE PyNone

\* A file content that is no JSON document: a file cut short or overwritten.
Garbage == [ty |-> "garbage"]

\* The cache file: its modification time and its content.
File(mtime, content) == [exists |-> TRUE, mtime |-> mtime, content |-> content]

\* Mutant of IsValid: an entry of age TTL is still valid.
IsValidInclusive(file, t, ttl) == file.exists /\ t - file.mtime <= ttl

\* Mutant of IsValid: a file never expires.
IsValidForever(file, t, ttl) == file.exists

\* schema_cache.is_valid at time t
IsValid(file, t, ttl) == file.exists /\ t - file.mtime < ttl

\* schema_cache.load
Load(file) ==
    IF ~file.exists THEN Raise("FileNotFoundError", "No such file or directory")
    ELSE IF file.content = Garbage THEN Raise("JSONDecodeError", "Expecting value")
    ELSE Return(JsonLoad(file.content))

\* schema_cache.save at time t
Save(schema_data, t) == File(t, JsonDump(schema_data))

\* {"schemas": {}, "schemas_raw": ..., "tables_raw": ...}
CatalogInfo(schemas_text, tables_text) ==
    [ty |-> "dict", schemas |-> EmptyDict,
     schemas_raw |-> schemas_text, tables_raw |-> tables_text]

\* d[key] = value
SetKey(d, key, value) ==
    [k \in DOMAIN d \cup {key} |-> IF k = key THEN value ELSE d[k]]

\* The failures of one request of a sweep: no response, a remote error.
SweepFailures == {NetworkFailure, Ok(<<J(JsonObj("msg", Absent))>>)}

\* The response to the k-th request of a sweep: the failure when k is
\* failAt, and the result otherwise.
Reply(k, failAt, failure, result) ==
    IF k = failAt THEN failure ELSE Ok(<<J(JsonObj("absent", result))>>)

\* The text the gateway returns from a tool for a catalog, and the tool
\* response that holds it.
GatewayText(tool, cat) == tool \o " of " \o cat

ToolText(tool, cat) == TextResponse(GatewayText(tool, cat))

\* The texts the gateway returns from getCatalogs.
SweepListings == {HeaderAndTwo, <<Word("OldCo")>>}

\* The failures of a sweep: none (failAt is 0), or that of its k-th
\* request, up to the last request of the longest sweep: initialize,
\* getCatalogs, and getSchemas and getTables of two catalogs.
SweepScripts ==
    {<<0, NetworkFailure>>}
        \cup ((1..(2 + 2 * Len(SweptNames(ParseCatalogNames(HeaderAndTwo)))))
                  \X SweepFailures)

\* The request req with the arguments of its tool call.
WithArguments(req, arguments) ==
    [k \in DOMAIN req \cup {"arguments"} |->
        IF k = "arguments" THEN arguments ELSE req[k]]

\* Mutant of CatalogCalls: getTables is called before getSchemas.
CatalogCallsTablesFirst(cat) ==
    <<[name |-> "getTables", arguments |-> [catalogName |-> cat, schemaName |-> ""]],
      [name |-> "getSchemas", arguments |-> [catalogName |-> cat]]>>

\* The two tool calls discover_and_cache makes for the catalog cat: the
\* 'params' of lines 75-78 and of lines 83-86.
CatalogCalls(cat) ==
    <<[name |-> "getSchemas", arguments |-> [catalogName |-> cat]],
      [name |-> "getTables", arguments |-> [catalogName |-> cat, schemaName |-> ""]]>>

\* F(v), with v evaluated once.
Bind(v, F(_)) == CHOOSE r \in {F(x) : x \in {v}} : TRUE

\* _call_mcp("tools/call", {"name": ..., "arguments": ...}) as the k-th
\* request of a sweep.
SweepCall(rid, call, k, failAt, failure, result) ==
    LET c == CallMcp(rid, "tools/call", call.name,
                     Reply(k, failAt, failure, result), "discover_and_cache")
    IN  [rid |-> c.rid, req |-> WithArguments(c.req, call.arguments), out |-> c.out]

\* discover_and_cache lines 69-89: the loop over the catalog names. st holds
\* the counter, the requests sent in the sweep and the catalogs so far.
RECURSIVE SweepCatalogs(_, _, _, _)
SweepCatalogs(names, st, failAt, failure) ==
    IF names = <<>>
    THEN [rid |-> st.rid, reqs |-> st.reqs, out |-> Return(st.catalogs)]
    ELSE LET cat == Head(names) IN
         IF cat = "" THEN SweepCatalogs(Tail(names), st, failAt, failure)
         ELSE Bind(CatalogCalls(cat),
              LAMBDA calls :
              Bind(SweepCall(st.rid, calls[1], Len(st.reqs) + 1, failAt, failure,
                             ToolText("schemas", cat)),
              LAMBDA c1 :
                  IF c1.out.kind = "raise"
                  THEN [rid |-> c1.rid, reqs |-> Append(st.reqs, c1.req),
                        out |-> c1.out]
                  ELSE
              Bind(ExtractText(c1.out.val),
              LAMBDA t1 :
                  IF t1.kind = "raise"
                  THEN [rid |-> c1.rid, reqs |-> Append(st.reqs, c1.req),
                        out |-> t1]
                  ELSE
              Bind(SweepCall(c1.rid, calls[2], Len(st.reqs) + 2, failAt, failure,
                             ToolText("tables", cat)),
              LAMBDA c2 :
                  IF c2.out.kind = "raise"
                  THEN [rid |-> c2.rid, reqs |-> st.reqs \o <<c1.req, c2.req>>,
                        out |-> c2.out]
                  ELSE
              Bind(ExtractText(c2.out.val),
              LAMBDA t2 :
                  IF t2.kind = "raise"
                  THEN [rid |-> c2.rid, reqs |-> st.reqs \o <<c1.req, c2.req>>,
                        out |-> t2]
                  ELSE
              Bind([rid |-> c2.rid,
                    reqs |-> st.reqs \o <<c1.req, c2.req>>,
                    catalogs |-> SetKey(st.catalogs, cat,
                                        CatalogInfo(t1.val, t2.val))],
              LAMBDA next :
                  SweepCatalogs(Tail(names), next, failAt, failure)))))))

\* discover_and_cache lines 48-89 at time t: the counter and the flag after
\* it, the requests it sent, and the schema to save or the error raised.
Discover(rid, init, t, failAt, failure, listing) ==
    LET schema == [ty |-> "dict", discovered_at |-> PyFloat(t), catalogs |-> EmptyDict]
    IN
    Bind(EnsureInitialized(rid, init,
                           Reply(1, failAt, failure, TextResponse("T1")),
                           "discover_and_cache"),
    LAMBDA e :
        IF e.out.kind = "raise"
        THEN [rid |-> e.rid, init |-> e.init, reqs |-> e.reqs, out |-> e.out]
        ELSE IF CDATA_CATALOG # NoCatalog
        THEN Bind(SweepCatalogs(<<CDATA_CATALOG>>,
                                [rid |-> e.rid, reqs |-> e.reqs,
                                 catalogs |-> EmptyDict],
                                failAt, failure),
             LAMBDA r :
                 [rid |-> r.rid, init |-> e.init, reqs |-> r.reqs,
                  out |-> IF r.out.kind = "raise" THEN r.out
                          ELSE Return(SetKey(schema, "catalogs", r.out.val))])
        ELSE
    Bind(CallMcp(e.rid, "tools/call", "getCatalogs",
                 Reply(Len(e.reqs) + 1, failAt, failure,
                       Response(PyList(<<Item("text", CharText(listing))>>))),
                 "discover_and_cache"),
    LAMBDA c :
        IF c.out.kind = "raise"
        THEN [rid |-> c.rid, init |-> e.init,
              reqs |-> Append(e.reqs, c.req), out |-> c.out]
        ELSE
    Bind(ExtractText(c.out.val),
    LAMBDA text :
        IF text.kind = "raise"
        THEN [rid |-> c.rid, init |-> e.init,
              reqs |-> Append(e.reqs, c.req), out |-> text]
        ELSE
    Bind([i \in DOMAIN ParseCatalogNames(Chars(text.val)) |->
             NameString(ParseCatalogNames(Chars(text.val))[i])],
    LAMBDA catalog_names_ :
    Bind(SweepCatalogs(catalog_names_,
                       [rid |-> c.rid, reqs |-> Append(e.reqs, c.req),
                        catalogs |-> EmptyDict],
                       failAt, failure),
    LAMBDA r :
        [rid |-> r.rid, init |-> e.init, reqs |-> r.reqs,
         out |-> IF r.out.kind = "raise" THEN r.out
                 ELSE Return(SetKey(SetKey(schema, "catalogs_raw", text.val),
                                    "catalogs", r.out.val))])))))

\* The schemas handed to save at time t: what discover_and_cache builds for
\* no, one or two catalogs, with and without the text of getCatalogs, and a
\* schema whose tables text is None.
Entries(t) ==
    {LET catalogs == [k \in {"ty"} \cup cats |->
                         IF k = "ty" THEN "dict"
                         ELSE CatalogInfo(PyStr(GatewayText("schemas", k)),
                                          PyStr(GatewayText("tables", k)))]
         schema == [ty |-> "dict", discovered_at |-> PyFloat(t),
                    catalogs |-> catalogs]
     IN  IF raw THEN SetKey(schema, "catalogs_raw", CharText(HeaderAndTwo))
         ELSE schema :
         cats \in SUBSET {"AcmeCo", "NordicEnergy"}, raw \in BOOLEAN}
      \cup {[ty |-> "dict", discovered_at |-> PyFloat(t),
              catalogs |-> [ty |-> "dict",
                            AcmeCo |-> CatalogInfo(PyStr("schemas of AcmeCo"),
                                                   PyNone)]]}

\* The tool calls of the agent in one run of the gather step: none, or one
\* query_data call, given by the responses to its initialize and its
\* tools/call request.
AgentRuns == {<<>>, <<Ok(<<JA>>), NetworkFailure>>}

\* agent.invoke: the counter and the flag after the tool calls of the
\* agent, and the requests they sent. The agent turns the failure of a
\* tool into a message of the conversation.
AgentInvoke(rid, init, run) ==
    IF run = <<>> THEN [rid |-> rid, init |-> init, reqs |-> <<>>]
    ELSE LET e == EnsureInitialized(rid, init, run[1], "gather_node") IN
         IF e.out.kind = "raise"
         THEN [rid |-> e.rid, init |-> e.init, reqs |-> e.reqs]
         ELSE LET c == CallMcp(e.rid, "tools/call", "queryData", run[2],
                               "gather_node")
              IN  [rid |-> c.rid, init |-> e.init, reqs |-> Append(e.reqs, c.req)]

\* {"gathered_data": gathered}
GatheredData == [ty |-> "dict", gathered_data |-> PyStr("gathered")]

\* discover_and_cache is called while few requests were sent.
SweepIdle ==
    /\ program = "graph"
    /\ _request_id < MaxSweepRequests

\* A process that uses the cache file alone.
InitCache ==
    /\ SessionIdle
    /\ body = <<>>
    /\ sendT = NotCalled
    /\ sendP = NotCalled
    /\ SCHEMA_CACHE_TTL \in 0..MaxTTL
    /\ now = 0
    /\ cache_file = NoFile
    /\ ExtractIdle
    /\ ParseIdle

\* The cache files an earlier run of the program can have left: none, the
\* schema of a sweep, a file cut short.
StoredFiles ==
    {NoFile, File(0, Garbage),
     Save([ty |-> "dict", discovered_at |-> PyFloat(0),
           catalogs_raw |-> CharText(<<Word("OldCo")>>),
           catalogs |-> [ty |-> "dict",
                         OldCo |-> CatalogInfo(PyStr("schemas of OldCo"),
                                               PyStr("tables of OldCo"))]], 0)}

\* A process of the pipeline.
InitGather ==
    /\ procs = NoProcs
    /\ program = "graph"
    /\ CDATA_CATALOG \in Catalogs
    /\ _request_id = 0
    /\ _initialized = FALSE
    /\ request_id = 0
    /\ initialized = FALSE
    /\ sent = <<>>
    /\ last = NotCalled
    /\ body = <<>>
    /\ sendT = NotCalled
    /\ sendP = NotCalled
    /\ SCHEMA_CACHE_TTL \in 0..MaxTTL
    /\ now = 0
    /\ cache_file \in StoredFiles
    /\ ExtractIdle
    /\ ParseIdle

\* The clock advances.
Tick ==
    /\ now < MaxTime
    /\ now' = now + 1
    /\ UNCHANGED <<sessionVars, decodeVars, SCHEMA_CACHE_TTL, cache_file,
                   extractVars, parseVars>>

\* schema_cache.is_valid
is_valid ==
    /\ last' = [op |-> "is_valid",
                out |-> Return(PyBool(IsValid(cache_file, now, SCHEMA_CACHE_TTL)))]
    /\ UNCHANGED <<procs, program, CDATA_CATALOG, _request_id, _initialized, request_id,
                   initialized, sent, otherVars>>

\* schema_cache.load
load ==
    /\ last' = [op |-> "load", out |-> Load(cache_file)]
    /\ UNCHANGED <<procs, program, CDATA_CATALOG, _request_id, _initialized, request_id,
                   initialized, sent, otherVars>>

\* schema_cache.save
save(schema_data) ==
    /\ cache_file' = Save(schema_data, now)
    /\ last' = [op |-> "save", arg |-> schema_data, out |-> Return(PyNone)]
    /\ UNCHANGED <<procs, program, CDATA_CATALOG, _request_id, _initialized, request_id,
                   initialized, sent, decodeVars, SCHEMA_CACHE_TTL, now,
                   extractVars, parseVars>>

\* schema_cache.save ended between open(CACHE_FILE, "w") and the end of
\* json.dump: the file holds the beginning of a document.
SaveCutShort ==
    /\ cache_file' = File(now, Garbage)
    /\ last' = [op |-> "save", out |-> Raise("KeyboardInterrupt", "")]
    /\ UNCHANGED <<procs, program, CDATA_CATALOG, _request_id, _initialized, request_id,
                   initialized, sent, decodeVars, SCHEMA_CACHE_TTL, now,
                   extractVars, parseVars>>

\* Mutant of discover_and_cache: the file is written whatever the sweep
\* gave, with the catalogs of a sweep that succeeded and with none otherwise.
DiscoverAndCacheWritesAnyway(failAt, failure, listing) ==
    /\ SweepIdle
    /\ \E d \in {Discover(_request_id, _initialized, now, failAt, failure, listing)} :
           /\ _request_id' = d.rid
           /\ _initialized' = d.init
           /\ sent' = sent \o d.reqs
           /\ cache_file' = Save(IF d.out.kind = "return" THEN d.out.val
                                 ELSE [ty |-> "dict", discovered_at |-> PyFloat(now),
                                       catalogs |-> EmptyDict], now)
           /\ last' = [op |-> "discover_and_cache", out |-> d.out]
    /\ UNCHANGED <<procs, program, CDATA_CATALOG, request_id, initialized, decodeVars,
                   SCHEMA_CACHE_TTL, now, extractVars, parseVars>>

\* Mutant of discover_and_cache: the catalogs of the file that is there stay
\* in the file, beside those of the sweep.
DiscoverAndCacheMerges(failAt, failure, listing) ==
    /\ SweepIdle
    /\ \E d \in {Discover(_request_id, _initialized, now, failAt, failure, listing)},
          old \in {Load(cache_file)} :
           /\ _request_id' = d.rid
           /\ _initialized' = d.init
           /\ sent' = sent \o d.reqs
           /\ cache_file' =
                  IF d.out.kind = "raise" THEN cache_file
                  ELSE IF old.kind = "raise" THEN Save(d.out.val, now)
                  ELSE Save([d.out.val EXCEPT !.catalogs =
                                [k \in DOMAIN old.val.catalogs \cup DOMAIN @ |->
                                    IF k \in DOMAIN @ THEN @[k]
                                    ELSE old.val.catalogs[k]]], now)
           /\ last' = [op |-> "discover_and_cache", out |-> d.out]
    /\ UNCHANGED <<procs, program, CDATA_CATALOG, request_id, initialized, decodeVars,
                   SCHEMA_CACHE_TTL, now, extractVars, parseVars>>

\* schema_cache.discover_and_cache
discover_and_cache(failAt, failure, listing) ==
    /\ SweepIdle
    /\ \E d \in {Discover(_request_id, _initialized, now, failAt, failure, listing)} :
           /\ _request_id' = d.rid
           /\ _initialized' = d.init
           /\ sent' = sent \o d.reqs
           /\ cache_file' = IF d.out.kind = "return" THEN Save(d.out.val, now)
                            ELSE cache_file
           /\ last' = [op |-> "discover_and_cache", out |-> d.out]
    /\ UNCHANGED <<procs, program, CDATA_CATALOG, request_id, initialized, decodeVars,
                   SCHEMA_CACHE_TTL, now, extractVars, parseVars>>

\* Mutant of gather_node: the error of the sweep is not caught.
GatherNodeSweepUncaught(elapsed, run, failAt, failure, listing) ==
    /\ ToolsIdle
    /\ now + elapsed <= MaxTime
    /\ IF /\ IsValid(cache_file, now, SCHEMA_CACHE_TTL)
          /\ Load(cache_file).kind = "raise"
       THEN /\ last' = [op |-> "gather_node", out |-> Load(cache_file)]
            /\ UNCHANGED <<_request_id, _initialized, sent, now, cache_file>>
       ELSE \E a \in {AgentInvoke(_request_id, _initialized, run)},
               t \in {now + elapsed} :
                /\ now' = t
                /\ IF IsValid(cache_file, t, SCHEMA_CACHE_TTL)
                   THEN /\ _request_id' = a.rid
                        /\ _initialized' = a.init
                        /\ sent' = sent \o a.reqs
                        /\ cache_file' = cache_file
                        /\ last' = [op |-> "gather_node", out |-> Return(GatheredData)]
                   ELSE \E d \in {Discover(a.rid, a.init, t, failAt, failure,
                                           listing)} :
                            /\ _request_id' = d.rid
                            /\ _initialized' = d.init
                            /\ sent' = sent \o a.reqs \o d.reqs
                            /\ cache_file' = IF d.out.kind = "return"
                                             THEN Save(d.out.val, t)
                                             ELSE cache_file
                            /\ last' = [op |-> "gather_node",
                                        out |-> IF d.out.kind = "return"
                                                THEN Return(GatheredData)
                                                ELSE d.out]
    /\ UNCHANGED <<procs, program, CDATA_CATALOG, request_id, initialized, decodeVars,
                   SCHEMA_CACHE_TTL, extractVars, parseVars>>

\* gatherer.gather_node, the agent taking elapsed ticks.
gather_node(elapsed, run, failAt, failure, listing) ==
    /\ ToolsIdle
    /\ now + elapsed <= MaxTime
    /\ IF /\ IsValid(cache_file, now, SCHEMA_CACHE_TTL)
          /\ Load(cache_file).kind = "raise"
       THEN /\ last' = [op |-> "gather_node", out |-> Load(cache_file)]
            /\ UNCHANGED <<_request_id, _initialized, sent, now, cache_file>>
       ELSE \E a \in {AgentInvoke(_request_id, _initialized, run)},
               t \in {now + elapsed} :
                /\ now' = t
                /\ last' = [op |-> "gather_node", out |-> Return(GatheredData)]
                /\ IF IsValid(cache_file, t, SCHEMA_CACHE_TTL)
                   THEN /\ _request_id' = a.rid
                        /\ _initialized' = a.init
                        /\ sent' = sent \o a.reqs
                        /\ cache_file' = cache_file
                   ELSE \E d \in {Discover(a.rid, a.init, t, failAt, failure,
                                           listing)} :
                            /\ _request_id' = d.rid
                            /\ _initialized' = d.init
                            /\ sent' = sent \o a.reqs \o d.reqs
                            /\ cache_file' = IF d.out.kind = "return"
                                             THEN Save(d.out.val, t)
                                             ELSE cache_file
    /\ UNCHANGED <<procs, program, CDATA_CATALOG, request_id, initialized, decodeVars,
                   SCHEMA_CACHE_TTL, extractVars, parseVars>>

NextCache ==
    \/ Tick
    \/ is_valid
    \/ load
    \/ \E schema_data \in Entries(now) : save(schema_data)
    \/ SaveCutShort

SpecCache == InitCache /\ [][NextCache]_vars

\* The sweeps of a process and its get_catalogs tool.
NextSweep ==
    \/ \E r1, r2 \in {Ok(<<JA>>), NetworkFailure} : get_catalogs(r1, r2)
    \/ \E script \in SweepScripts, listing \in SweepListings :
           discover_and_cache(script[1], script[2], listing)

SpecSweep == InitGather /\ [][NextSweep]_vars

\* The gather steps of a process, during which the time passes.
NextGather ==
    \E elapsed \in 0..1, run \in AgentRuns, script \in SweepScripts,
          listing \in SweepListings :
           gather_node(elapsed, run, script[1], script[2], listing)

SpecGather == InitGather /\ [][NextGather]_vars

-----------------------------------------------------------------------------
\* The cache file under processes that run at the same time: save in two of
\* them, and the is_valid and load of gather_node in a third.

\* The number of blocks in which the file object of save hands the document
\* doc to the operating system: one for the head of the document and one
\* more for each catalog (the unit of the model is a full buffer).
BlockCount(doc) == Cardinality(DOMAIN doc.catalogs \ {"ty"}) + 1

\* The bytes of the document doc, block by block.
Blocks(doc) == [i \in 1..BlockCount(doc) |-> [doc |-> doc, i |-> i]]

\* The zero bytes of a block that was never written, before a later one.
Hole == [doc |-> Garbage, i |-> 0]

\* write(2) of one block at the offset of the file description of the
\* writer: the block replaces what is there and all other bytes stay.
WriteAt(bytes, offset, block) ==
    [i \in 1..(IF Len(bytes) > offset THEN Len(bytes) ELSE offset + 1) |->
        IF i = offset + 1 THEN block
        ELSE IF i <= Len(bytes) THEN bytes[i]
        ELSE Hole]

\* Mutant of ReadDocument: the beginning of a document is read as the
\* document without its catalogs.
ReadDocumentLenient(bytes) ==
    IF bytes # <<>> /\ bytes[1].i = 1
    THEN IF bytes = Blocks(bytes[1].doc) THEN bytes[1].doc
         ELSE [k \in DOMAIN bytes[1].doc \ {"catalogs"} |-> bytes[1].doc[k]]
    ELSE Garbage

\* What json.load finds in the bytes: the document they are, all its blocks
\* in order and nothing after them, and no document otherwise.
ReadDocument(bytes) ==
    IF bytes # <<>> /\ bytes[1].i = 1 /\ bytes = Blocks(bytes[1].doc)
    THEN bytes[1].doc
    ELSE Garbage

\* The cache file with these bytes.
FileOf(mtime, bytes) ==
    [exists |-> TRUE, mtime |-> mtime, content |-> ReadDocument(bytes),
     bytes |-> bytes]

Writers == {"w1", "w2"}

\* The entries the two processes save: those of a sweep over no, one or two
\* catalogs.
SavedEntries == {e \in Entries(0) : "catalogs_raw" \in DOMAIN e}

\* The entry an earlier run has left in the file.
OldEntries ==
    {JsonLoad(f.content) : f \in {g \in StoredFiles \ {NoFile} : g.content # Garbage}}

IdleProc == [pc |-> "idle"]

InitFile ==
    /\ procs = [p \in Writers \cup {"reader"} |-> IdleProc]
    /\ program = "graph"
    /\ CDATA_CATALOG = NoCatalog
    /\ _request_id = 0
    /\ _initialized = FALSE
    /\ request_id = 0
    /\ initialized = FALSE
    /\ sent = <<>>
    /\ last = NotCalled
    /\ body = <<>>
    /\ sendT = NotCalled
    /\ sendP = NotCalled
    /\ SCHEMA_CACHE_TTL \in 0..MaxTTL
    /\ now = 0
    /\ cache_file \in {NoFile} \cup {FileOf(0, Blocks(JsonDump(e))) : e \in OldEntries}
    /\ ExtractIdle
    /\ ParseIdle

\* save in the process p, open(CACHE_FILE, "w"): the file is created or
\* cut to no bytes, and the writer stands at its beginning.
SaveOpen(p, schema_data) ==
    /\ procs[p].pc = "idle"
    /\ cache_file' = FileOf(now, <<>>)
    /\ procs' = [procs EXCEPT ![p] = [pc |-> "writing", entry |-> schema_data,
                                       offset |-> 0]]
    /\ UNCHANGED <<program, CDATA_CATALOG, _request_id, _initialized, request_id,
                   initialized, sent, last, decodeVars, SCHEMA_CACHE_TTL, now,
                   extractVars, parseVars>>

\* save in the process p, json.dump: the next block of the document is
\* written; with the last one the file is closed.
SaveWrite(p) ==
    /\ procs[p].pc = "writing"
    /\ \E doc \in {JsonDump(procs[p].entry)} :
          /\ cache_file' = FileOf(now, WriteAt(cache_file.bytes, procs[p].offset,
                                               Blocks(doc)[procs[p].offset + 1]))
          /\ procs' = [procs EXCEPT
                          ![p].offset = @ + 1,
                          ![p].pc = IF procs[p].offset + 1 = BlockCount(doc)
                                    THEN "closed" ELSE "writing"]
    /\ UNCHANGED <<program, CDATA_CATALOG, _request_id, _initialized, request_id,
                   initialized, sent, last, decodeVars, SCHEMA_CACHE_TTL, now,
                   extractVars, parseVars>>

\* gather_node in the reader, "if schema_cache.is_valid():".
ReadIsValid ==
    /\ procs["reader"].pc = "idle"
    /\ procs' = [procs EXCEPT !["reader"].pc =
                    IF IsValid(cache_file, now, SCHEMA_CACHE_TTL)
                    THEN "valid" ELSE "ended"]
    /\ UNCHANGED <<program, CDATA_CATALOG, _request_id, _initialized, request_id,
                   initialized, sent, last, otherVars>>

\* gather_node in the reader, "cached = schema_cache.load()".
ReadLoad ==
    /\ procs["reader"].pc = "valid"
    /\ procs' = [procs EXCEPT !["reader"].pc = "ended"]
    /\ last' = [op |-> "load", out |-> Load(cache_file)]
    /\ UNCHANGED <<program, CDATA_CATALOG, _request_id, _initialized, request_id,
                   initialized, sent, otherVars>>

NextFile ==
    \/ \E p \in Writers, e \in SavedEntries : SaveOpen(p, e)
    \/ \E p \in Writers : SaveWrite(p)
    \/ ReadIsValid
    \/ ReadLoad

SpecFile == InitFile /\ [][NextFile]_vars

-----------------------------------------------------------------------------
\* One client under two threads that call a tool at the same time (the
\* tool node of the agent runs the tool calls of one message in threads):
\* query_data of mcp_tools, or call_tool of one MCPClientProduction.

Callers == {"t1", "t2"}

InitRace ==
    /\ procs = [t \in Callers |-> IdleProc]
    /\ program \in {"graph", "main"}
    /\ CDATA_CATALOG = NoCatalog
    /\ _request_id = 0
    /\ _initialized = FALSE
    /\ request_id = 0
    /\ initialized = FALSE
    /\ sent = <<>>
    /\ last = NotCalled
    /\ body = <<>>
    /\ sendT = NotCalled
    /\ sendP = NotCalled
    /\ CacheIdle
    /\ ExtractIdle
    /\ ParseIdle

\* Mutant of Begin: the handshake is sent whatever the flag says.
BeginAlwaysInitializes(t) ==
    /\ procs[t].pc = "idle"
    /\ procs' = [procs EXCEPT ![t] =
                    [pc |-> "load",
                     method |-> IF program = "graph"
                                THEN "initialize" ELSE "tools/call"]]
    /\ UNCHANGED <<program, CDATA_CATALOG, _request_id, _initialized, request_id,
                   initialized, sent, last, otherVars>>

\* The thread t enters the tool. _ensure_initialized tests the flag ("if
\* not _initialized:") and goes on to _call_mcp("initialize") or returns to
\* the tool, which calls _call_mcp("tools/call"); call_tool of
\* MCPClientProduction tests nothing.
Begin(t) ==
    /\ procs[t].pc = "idle"
    /\ procs' = [procs EXCEPT ![t] =
                    [pc |-> "load",
                     method |-> IF program = "graph" /\ ~_initialized
                                THEN "initialize" ELSE "tools/call"]]
    /\ UNCHANGED <<program, CDATA_CATALOG, _request_id, _initialized, request_id,
                   initialized, sent, last, otherVars>>

\* "_request_id += 1" and "self.request_id += 1", the read of the counter.
IncrLoad(t) ==
    /\ procs[t].pc = "load"
    /\ procs' = [procs EXCEPT ![t] =
                    [pc |-> "store", method |-> procs[t].method,
                     tmp |-> IF program = "graph" THEN _request_id
                             ELSE request_id]]
    /\ UNCHANGED <<program, CDATA_CATALOG, _request_id, _initialized, request_id,
                   initialized, sent, last, otherVars>>

\* Mutant of IncrStore: the counter is stored as it was read.
IncrStoreSame(t) ==
    /\ procs[t].pc = "store"
    /\ IF program = "graph"
       THEN _request_id' = procs[t].tmp /\ UNCHANGED request_id
       ELSE request_id' = procs[t].tmp /\ UNCHANGED _request_id
    /\ procs' = [procs EXCEPT ![t] = [pc |-> "read", method |-> procs[t].method]]
    /\ UNCHANGED <<program, CDATA_CATALOG, _initialized, initialized, sent, last,
                   otherVars>>

\* "_request_id += 1" and "self.request_id += 1", the write of the sum.
IncrStore(t) ==
    /\ procs[t].pc = "store"
    /\ IF program = "graph"
       THEN _request_id' = procs[t].tmp + 1 /\ UNCHANGED request_id
       ELSE request_id' = procs[t].tmp + 1 /\ UNCHANGED _request_id
    /\ procs' = [procs EXCEPT ![t] = [pc |-> "read", method |-> procs[t].method]]
    /\ UNCHANGED <<program, CDATA_CATALOG, _initialized, initialized, sent, last,
                   otherVars>>

\* payload = {..., "id": _request_id, ...}: the counter is read again, after
\* track("mcp_calls") in _call_mcp.
ReadId(t) ==
    /\ procs[t].pc = "read"
    /\ procs' = [procs EXCEPT ![t] =
                    [pc |-> "post", method |-> procs[t].method,
                     id |-> IF program = "graph" THEN _request_id
                            ELSE request_id]]
    /\ UNCHANGED <<program, CDATA_CATALOG, _request_id, _initialized, request_id,
                   initialized, sent, last, otherVars>>

\* The request of the thread t, with the thread that sent it.
RequestOf(t, out) ==
    [thread |-> t] @@ Request(procs[t].id, procs[t].method,
                              IF procs[t].method = "tools/call"
                              THEN "queryData" ELSE "", out, "query_data")

\* The POST of the payload and the response resp. The error of a request
\* ends the tool; after the handshake the flag is still to be set.
Post(t, resp) ==
    /\ procs[t].pc = "post"
    /\ \E out \in {IF program = "graph" THEN CallMcpOutcome(resp)
                   ELSE MakeRequestOutcome(resp)} :
          /\ sent' = Append(sent, RequestOf(t, out))
          /\ IF out.kind = "return" /\ procs[t].method = "initialize"
             THEN /\ procs' = [procs EXCEPT ![t] = [pc |-> "flag"]]
                  /\ UNCHANGED last
             ELSE /\ procs' = [procs EXCEPT ![t] = [pc |-> "ended"]]
                  /\ last' = [op |-> "query_data", thread |-> t,
                              out |-> IF out.kind = "raise" THEN out
                                      ELSE IF program = "graph"
                                      THEN ExtractText(out.val) ELSE out]
    /\ UNCHANGED <<program, CDATA_CATALOG, _request_id, _initialized, request_id,
                   initialized, otherVars>>

\* "_initialized = True" after _call_mcp("initialize") has returned; the
\* tool goes on to its tools/call request.
SetInitialized(t) ==
    /\ procs[t].pc = "flag"
    /\ _initialized' = TRUE
    /\ procs' = [procs EXCEPT ![t] = [pc |-> "load", method |-> "tools/call"]]
    /\ UNCHANGED <<program, CDATA_CATALOG, _request_id, request_id, initialized,
                   sent, last, otherVars>>

NextRace ==
    \/ \E t \in Callers : Begin(t)
    \/ \E t \in Callers : IncrLoad(t)
    \/ \E t \in Callers : IncrStore(t)
    \/ \E t \in Callers : ReadId(t)
    \/ \E t \in Callers, resp \in {Ok(<<JA>>), NetworkFailure} : Post(t, resp)
    \/ \E t \in Callers : SetInitialized(t)

SpecRace == InitRace /\ [][NextRace]_vars

-----------------------------------------------------------------------------
\* Properties of the decoders (SpecDecode).

\* The response objects that carry no error for the code: no "error" member,
\* or a falsy one (null, {}).
NoError(o) == o.error = "absent" \/ ~Truthy(o.error)

\* C6 as stated: with no error, both clients return the "result" member
\* unchanged, and an empty mapping when it is absent.
C6_AsClaimed ==
    \A o \in JsonObjs :
        (body \in Framings(o) /\ NoError(o)) =>
            LET want == Return(IF o.result = Absent THEN EmptyDict ELSE o.result)
            IN  /\ sendT # NotCalled => sendT = want
                /\ sendP # NotCalled => sendP = want

\* C6, amended: with no error, both clients return the "result" member
\* unchanged; when it is absent _call_mcp returns an empty mapping and
\* _make_request returns None.
C6_ResultReturned ==
    \A o \in JsonObjs :
        (body \in Framings(o) /\ NoError(o)) =>
            /\ sendT # NotCalled =>
                   sendT = Return(IF o.result = Absent THEN EmptyDict ELSE o.result)
            /\ sendP # NotCalled =>
                   sendP = Return(IF o.result = Absent THEN PyNone ELSE o.result)

\* C6: both clients have returned, one from a response with a result and
\* no error member, the other case being a response with neither.
C6_Witness ==
    /\ body = <<J(JsonObj("absent", Absent))>>
    /\ sendT = Return(EmptyDict)
    /\ sendP = Return(PyNone)

\* C7 as stated: a non-null "error" member makes both clients raise with the
\* remote message, or with "Unknown error" when the error object has none.
C7_AsClaimed ==
    \A o \in JsonObjs :
        (body \in Framings(o) /\ o.error \notin {"absent", "null"}) =>
            LET msg == IF o.error = "msg" THEN "boom" ELSE "Unknown error"
            IN  /\ sendT # NotCalled => (sendT.kind = "raise" /\ sendT.msg = msg)
                /\ sendP # NotCalled => (sendP.kind = "raise" /\ sendP.msg = msg)

\* C7, amended: a truthy "error" member (a non-empty object) makes both
\* clients raise, whatever the "result" member, with the remote message, or
\* with the default when the object has none: "Unknown" for _call_mcp,
\* "Unknown error" for _make_request.
C7_ErrorRaised ==
    \A o \in JsonObjs :
        (body \in Framings(o) /\ o.error \in {"nomsg", "msg"}) =>
            /\ sendT # NotCalled =>
                   sendT = Raise("RuntimeError",
                                 IF o.error = "msg" THEN "boom" ELSE "Unknown")
            /\ sendP # NotCalled =>
                   sendP = Raise("Exception",
                                 IF o.error = "msg" THEN "boom" ELSE "Unknown error")

\* C7: both clients have raised on a response that carries an error with a
\* message and a result as well.
C7_Witness ==
    /\ body = <<J(JsonObj("msg", TextResponse("T1")))>>
    /\ sendT = Raise("RuntimeError", "boom")
    /\ sendP = Raise("Exception", "boom")

\* C8: a response object as one 'data: ' line, with or without a final
\* newline, gives each client the outcome the same object gives it as raw JSON.
C8_FormatAgnostic ==
    \A o \in JsonObjs :
        body \in {<<D, J(o)>>, <<D, J(o), NL>>} =>
            /\ sendT # NotCalled => sendT = CallMcpOutcome(Ok(<<J(o)>>))
            /\ sendP # NotCalled => sendP = MakeRequestOutcome(Ok(<<J(o)>>))

\* C8: both clients have decoded a 'data: ' line ending in a newline to the
\* result of the object it carries.
C8_Witness ==
    /\ body = <<D, JA, NL>>
    /\ sendT = Return(TextResponse("T1"))
    /\ sendP = Return(TextResponse("T1"))

\* The lines of a body that begin with 'data: '.
DataLines(b) == SelectSeq(Split(b), StartsWithData)

\* What follows 'data: ' on the last such line.
LastPayload(b) == Tail(DataLines(b)[Len(DataLines(b))])

IsBlank(s) == \A i \in 1..Len(s) : IsSpace(s[i])

\* C9 as stated: with several 'data: ' lines, each client decodes the payload
\* of the last one, whatever the other lines hold.
C9_AsClaimed ==
    Len(DataLines(body)) >= 2 =>
        /\ sendT # NotCalled =>
               sendT = CallMcpInterpret(JsonLoads(LastPayload(body)))
        /\ sendP # NotCalled =>
               sendP = MakeRequestInterpret(JsonLoads(LastPayload(body)))

\* C9, amended: with several 'data: ' lines of which the last has a payload
\* that is not blank, each client decodes the payload of the last one,
\* whatever the other lines hold.
C9_LastDataLineWins ==
    (Len(DataLines(body)) >= 2 /\ ~IsBlank(LastPayload(body))) =>
        /\ sendT # NotCalled =>
               sendT = CallMcpInterpret(JsonLoads(LastPayload(body)))
        /\ sendP # NotCalled =>
               sendP = MakeRequestInterpret(JsonLoads(LastPayload(body)))

\* C9: both clients have decoded a stream of two events, 'data: ' lines with
\* different payloads among 'event:' lines and blank lines, to the second payload.
C9_Witness ==
    /\ body = SseStream(JA.obj, JB.obj)
    /\ sendT = Return(TextResponse("T2"))
    /\ sendP = Return(TextResponse("T2"))

-----------------------------------------------------------------------------
\* Properties of the sessions (Spec).

\* The requests a step sends.
NewRequests == SubSeq(sent', Len(sent) + 1, Len(sent'))

IsInitialize(r) == r.method = "initialize"

IsToolCall(r) == r.method = "tools/call"

\* An initialize request has completed successfully among those sent.
HandshakeDone == \E i \in DOMAIN sent : IsInitialize(sent[i]) /\ sent[i].ok

\* C1 as stated: every tools/call request on the wire comes after an
\* initialize request of the same client that completed successfully.
C1_AsClaimed ==
    \A i \in DOMAIN sent :
        IsToolCall(sent[i]) =>
            \E j \in 1..(i - 1) : IsInitialize(sent[j]) /\ sent[j].ok

\* C2 as stated: at most one initialize request is ever sent by a client.
C2_AsClaimed ==
    Cardinality({i \in DOMAIN sent : IsInitialize(sent[i])}) <= 1

\* C2, amended: a tool call sends at most one initialize request, and none
\* once an initialize request of the client has succeeded; the initialize
\* requests sent after that are those of explicit initialize() calls.
C2_NoHandshakeAfterSuccess ==
    [][LET new == NewRequests IN
       /\ Cardinality({i \in DOMAIN new : IsInitialize(new[i])}) <= 1
       /\ HandshakeDone =>
              \A i \in DOMAIN new :
                  IsInitialize(new[i]) => new[i].op = "initialize"]_vars

\* C2: the process-global client has sent three requests or more, the first
\* a successful initialize and no other initialize after it.
C2_Witness ==
    /\ program = "graph"
    /\ Len(sent) >= 3
    /\ IsInitialize(sent[1]) /\ sent[1].ok
    /\ \A i \in 2..Len(sent) : IsToolCall(sent[i])

C4_ReadyAbsorbing ==
    [][/\ _initialized => _initialized'
       /\ initialized => initialized'
       /\ _initialized =>
              /\ \A r \in Responses :
                     LET e == EnsureInitialized(_request_id, _initialized, r, "-")
                     IN  e.reqs = <<>> /\ e.rid = _request_id /\ e.init
              /\ \A i \in DOMAIN NewRequests : ~IsInitialize(NewRequests[i])
              /\ Len(NewRequests) <= 1
              /\ _request_id' = _request_id + Len(NewRequests)]_vars

\* C4: the client of mcp_tools is still initialized after a tool call that
\* failed on an initialized client.
C4_Witness ==
    /\ program = "graph"
    /\ _initialized
    /\ Len(sent) >= 3
    /\ IsInitialize(sent[1]) /\ sent[1].ok
    /\ IsToolCall(sent[Len(sent)]) /\ ~sent[Len(sent)].ok
    /\ last.out.kind = "raise"

\* C5: the requests of a client carry the ids 1, 2, 3, ... in the order
\* they are sent, failed ones included, and the counter of the client is
\* the number of requests it has sent.
C5_IdsCount ==
    /\ \A i \in DOMAIN sent : sent[i].id = i
    /\ program = "graph" => _request_id = Len(sent)
    /\ program = "main" => request_id = Len(sent)

\* C5: a request has been sent after a failed one, in a run of three or more.
C5_Witness ==
    /\ Len(sent) >= 3
    /\ ~sent[Len(sent) - 1].ok
    /\ sent[Len(sent)].id = sent[Len(sent) - 1].id + 1

\* C10 as stated: an operation whose tools/call request fails in the
\* transport ends by raising, not by returning a value.
C10_AsClaimed ==
    [][LET new == NewRequests IN
       (new # <<>> /\ IsToolCall(new[Len(new)]) /\ ~new[Len(new)].ok) =>
           last'.out.kind = "raise"]_vars

-----------------------------------------------------------------------------
\* Properties of the extractors (SpecExtract).

\* The tool response carries a query response whose result sets have a
\* schema of columns and rows of values.
IsWellFormed == tool_result \in {JsonResponse(doc) : doc \in WellFormedDocs}

\* The result sets of the query response, and the first of them.
InnerResults == tool_result.content.l[1].text.json.results.l

RS0 == InnerResults[1]

\* The schema of rs has a column, and every row has one value per column.
Rectangular(rs) ==
    /\ rs.schema.l # <<>>
    /\ \A i \in DOMAIN rs.rows.l : Len(rs.rows.l[i].l) = Len(rs.schema.l)

\* The schema of rs has a column, and some row has more or fewer values
\* than there are columns.
Ragged(rs) ==
    /\ rs.schema.l # <<>>
    /\ \E i \in DOMAIN rs.rows.l : Len(rs.rows.l[i].l) # Len(rs.schema.l)

\* records is one record per row of result set k, in row order, and maps
\* the j-th column name to the j-th value of the row.
ColumnWise(records, k, rs) ==
    /\ records.ty = "list"
    /\ Len(records.l) = Len(rs.rows.l)
    /\ \A i \in DOMAIN records.l :
           /\ DOMAIN records.l[i] =
                  {rs.schema.l[j].columnName : j \in DOMAIN rs.schema.l}
           /\ \A j \in DOMAIN rs.schema.l :
                  records.l[i][rs.schema.l[j].columnName] = Cell(k, i, j)

\* As ColumnWise, but a name that several columns bear maps to the value
\* of the last of them.
LastColumnWise(records, k, rs) ==
    /\ records.ty = "list"
    /\ Len(records.l) = Len(rs.rows.l)
    /\ \A i \in DOMAIN records.l :
           /\ DOMAIN records.l[i] =
                  {rs.schema.l[j].columnName : j \in DOMAIN rs.schema.l}
           /\ \A j \in DOMAIN rs.schema.l :
                  (\A h \in DOMAIN rs.schema.l :
                       h > j => rs.schema.l[h].columnName # rs.schema.l[j].columnName)
                    => records.l[i][rs.schema.l[j].columnName] = Cell(k, i, j)

\* The blocks of the text _extract_query_results returned.
BlocksOut == IF results_out.val = PyStr("") THEN <<>> ELSE results_out.val.blocks

\* C17 as stated: for a query response whose first result set has n columns
\* and n values in every row, the records are those of the first result
\* set alone, one per row in row order, the j-th column name mapped to the
\* j-th value, in query_data and in _extract_query_results alike.
C17_AsClaimed ==
    (IsWellFormed /\ Rectangular(RS0)) =>
        /\ data_out # NotCalled =>
               data_out.kind = "return" /\ ColumnWise(data_out.val, 1, RS0)
        /\ results_out # NotCalled =>
               /\ results_out.kind = "return"
               /\ Len(BlocksOut) <= 1
               /\ \A b \in DOMAIN BlocksOut :
                      ColumnWise(BlocksOut[b].records, 1, RS0)

\* C17, amended: for such a response MCPClientProduction.query_data returns
\* the records of the first result set alone, one per row in row order,
\* each column name mapped to the value of the last column of that name
\* (the j-th name to the j-th value when the names differ);
\* _extract_query_results builds such records for every result set that
\* has rows, in the order of the result sets.
C17_FirstResultSet ==
    (IsWellFormed /\ Rectangular(RS0)) =>
        /\ data_out # NotCalled =>
               data_out.kind = "return" /\ LastColumnWise(data_out.val, 1, RS0)
        /\ results_out # NotCalled =>
               /\ results_out.kind = "return"
               /\ LET filled == SelectSeq([k \in DOMAIN InnerResults |-> k],
                                          LAMBDA k : InnerResults[k].rows.l # <<>>)
                  IN  /\ Len(BlocksOut) = Len(filled)
                      /\ \A b \in DOMAIN BlocksOut :
                             LastColumnWise(BlocksOut[b].records, filled[b],
                                            InnerResults[filled[b]])

\* C17: both extractors have run on a response of two result sets, the
\* first of two columns and two rows.
C17_Witness ==
    /\ tool_result =
           JsonResponse(QueryResponse(
               <<ResultSet(<<Column("Name"), Column("Id")>>, Rows(1, <<2, 2>>)),
                 LaterResultSet>>))
    /\ data_out # NotCalled /\ Len(data_out.val.l) = 2
    /\ results_out # NotCalled /\ Len(BlocksOut) = 2

\* C18 as stated: when a row of the first result set has more or fewer
\* values than there are columns, the conversion ends in an error and makes
\* no record of such a row.
C18_AsClaimed ==
    (IsWellFormed /\ Ragged(RS0)) =>
        /\ data_out # NotCalled =>
               \/ data_out.kind = "raise"
               \/ \A i \in DOMAIN data_out.val.l :
                      Len(RS0.rows.l[i].l) = Len(RS0.schema.l)
        /\ results_out # NotCalled =>
               \/ results_out.kind = "raise"
               \/ \A b \in DOMAIN BlocksOut :
                      \A i \in DOMAIN BlocksOut[b].records.l :
                          Len(RS0.rows.l[i].l) = Len(RS0.schema.l)

\* The tool responses the claim names: a text that is no JSON, a query
\* response without "results" or with none, and a first result set whose
\* schema or rows are empty.
EmptyCase ==
    \/ tool_result \in {TextResponse("T1"), JsonResponse(EmptyDict),
                        JsonResponse(QueryResponse(<<>>))}
    \/ IsWellFormed /\ (RS0.schema.l = <<>> \/ RS0.rows.l = <<>>)

\* C19: MCPClientProduction.query_data raises on no tool response: it
\* returns a list, and the empty list when the text is no JSON, "results"
\* is absent or empty, or the schema or the rows of the first result set
\* are empty.
C19_NeverRaises ==
    data_out # NotCalled =>
        /\ data_out.kind = "return"
        /\ data_out.val.ty = "list"
        /\ EmptyCase => data_out.val = PyList(<<>>)

\* C19: query_data has returned the empty list on a response whose content
\* is null, on which the body of its try statement raises.
C19_Witness ==
    /\ tool_result = Response(PyNone)
    /\ QueryDataTry(tool_result).kind = "raise"
    /\ data_out = Return(PyList(<<>>))

\* C20 as stated: on a tool response of any shape _extract_text returns a
\* string and raises nothing: the text of the first text entry when the
\* response has a content with one, and str(response) otherwise.
C20_AsClaimed ==
    text_out # NotCalled =>
        /\ text_out.kind = "return"
        /\ text_out.val.ty = "str"

-----------------------------------------------------------------------------
\* Properties of the schema cache (SpecCache, SpecGather, SpecParse).

\* The requests of a sweep among those a step sends, and whether one failed.
SweepRequests == SelectSeq(NewRequests, LAMBDA r : r.op = "discover_and_cache")

SweepFailed == \E i \in DOMAIN SweepRequests : ~SweepRequests[i].ok

\* The errors a request of mcp_tools raises.
RequestErrors == {"RequestException", "HTTPError", "JSONDecodeError", "RuntimeError"}

\* C11 as stated: when a request of a sweep fails, discover_and_cache raises
\* a DiscoverySweepError, and the cache file is as it was before.
C11_AsClaimed ==
    [][SweepFailed =>
           /\ cache_file' = cache_file
           /\ (last' # NotCalled /\ last'.op = "discover_and_cache") =>
                  /\ last'.out.kind = "raise"
                  /\ last'.out.exc = "DiscoverySweepError"]_vars

\* C11, amended: when a request of a sweep fails, discover_and_cache raises
\* the error of that request as it is, and the cache file is as it was
\* before, in content and in modification time.
C11_NoPartialCache ==
    [][SweepFailed =>
           /\ cache_file' = cache_file
           /\ (last' # NotCalled /\ last'.op = "discover_and_cache") =>
                  /\ last'.out.kind = "raise"
                  /\ last'.out.exc \in RequestErrors]_vars

\* C11: discover_and_cache has raised at the getTables request of the
\* second catalog, its sixth request, with a schema in the cache file.
C11_Witness ==
    /\ last # NotCalled
    /\ last.op = "discover_and_cache"
    /\ last.out.kind = "raise"
    /\ Len(sent) = 6
    /\ sent[6].name = "getTables" /\ ~sent[6].ok
    /\ \A i \in 1..5 : sent[i].ok
    /\ cache_file.exists /\ cache_file.content # Garbage

\* The age of the cache file.
Age == now - cache_file.mtime

\* A step in which is_valid is called.
IsValidStep ==
    /\ last' # NotCalled
    /\ last'.op = "is_valid"
    /\ now' = now
    /\ cache_file' = cache_file

\* C12: is_valid returns True when the file exists and its age is less
\* than the TTL, and False when there is no file or its age is the TTL or
\* more.
C12_ValidIffFresh ==
    [][IsValidStep =>
           /\ ~cache_file.exists => last'.out = Return(PyBool(FALSE))
           /\ (cache_file.exists /\ Age < SCHEMA_CACHE_TTL) =>
                  last'.out = Return(PyBool(TRUE))
           /\ (cache_file.exists /\ Age >= SCHEMA_CACHE_TTL) =>
                  last'.out = Return(PyBool(FALSE))]_vars

\* C12: is_valid has returned False for a file whose age is the TTL.
C12_Witness ==
    /\ cache_file.exists
    /\ SCHEMA_CACHE_TTL > 0
    /\ Age = SCHEMA_CACHE_TTL
    /\ last # NotCalled
    /\ last.op = "is_valid"
    /\ last.out = Return(PyBool(FALSE))

\* What is_valid returns in this state.
Valid == IsValid(cache_file, now, SCHEMA_CACHE_TTL)

\* C13 as stated: for every TTL, the file is valid at age 0, valid while its
\* age is less than the TTL, and invalid once its age is more than the TTL.
C13_AsClaimed ==
    cache_file.exists =>
        /\ Age = 0 => Valid
        /\ Age < SCHEMA_CACHE_TTL => Valid
        /\ Age > SCHEMA_CACHE_TTL => ~Valid

\* C13, amended: for every TTL greater than 0 the file is valid at age 0,
\* valid while its age is less than the TTL, and invalid once its age is
\* more than the TTL; for a TTL of 0 or less it is never valid.
C13_PositiveTTL ==
    cache_file.exists =>
        /\ SCHEMA_CACHE_TTL > 0 =>
               /\ Age = 0 => Valid
               /\ Age < SCHEMA_CACHE_TTL => Valid
               /\ Age > SCHEMA_CACHE_TTL => ~Valid
        /\ SCHEMA_CACHE_TTL <= 0 => ~Valid

\* C13: is_valid has returned True for a saved file of age 1 under the TTL 2.
C13_Witness ==
    /\ cache_file.exists /\ cache_file.content # Garbage
    /\ SCHEMA_CACHE_TTL = 2
    /\ Age = 1
    /\ last # NotCalled
    /\ last.op = "is_valid"
    /\ last.out = Return(PyBool(TRUE))

\* C14: load, called after save(e) has returned and before any other write,
\* returns a value equal to e.
C14_RoundTrip ==
    [][(/\ last # NotCalled
        /\ last.op = "save"
        /\ last.out.kind = "return"
        /\ last'.op = "load") =>
           last'.out = Return(last.arg)]_vars

\* C14: load has returned a schema of two catalogs with the text of
\* getCatalogs.
C14_Witness ==
    /\ last # NotCalled
    /\ last.op = "load"
    /\ last.out.kind = "return"
    /\ DOMAIN last.out.val.catalogs = {"ty", "AcmeCo", "NordicEnergy"}
    /\ "catalogs_raw" \in DOMAIN last.out.val
    /\ last.out.val.discovered_at = PyFloat(now)

\* C15 as stated: the gather step completes whatever the cache file holds.
C15_AsClaimed ==
    (last # NotCalled /\ last.op = "gather_node") => last.out.kind = "return"

\* The name a line of the getCatalogs text stands for.
CleanName(line) == StripChar(StripChar(Strip(line), QUOTE), COMMA)

\* C16 as stated: every line that is neither blank nor the header line
\* 'catalog' contributes one catalog name, in order, and none is dropped.
C16_AsClaimed ==
    catalog_names # NotCalled =>
        LET named == SelectSeq(Split(catalogs_text),
                               LAMBDA line : CleanName(line) \notin {<<>>, <<CATALOGWORD>>})
        IN  SelectSeq(catalog_names.val, LAMBDA cat : cat # <<CATALOGWORD>>)
                = [i \in DOMAIN named |-> CleanName(named[i])]

-----------------------------------------------------------------------------
\* Properties of later claims on the decoders (SpecDecode).

\* C25 as stated: the body of a raw JSON object spread over several lines
\* decodes, in both clients, to what the same object on one line decodes to.
C25_AsClaimed ==
    \A o \in JsonObjs :
        body \in SeveralLines(o) =>
            /\ sendT # NotCalled => sendT = CallMcpOutcome(Ok(<<J(o)>>))
            /\ sendP # NotCalled => sendP = MakeRequestOutcome(Ok(<<J(o)>>))

-----------------------------------------------------------------------------
\* Properties of the sweeps (SpecSweep).

\* A step in which discover_and_cache has returned.
SweepReturned ==
    /\ last' # NotCalled
    /\ last'.op = "discover_and_cache"
    /\ last'.out.kind = "return"
    /\ sent' # sent

\* The catalogs a sweep that returned entry has resolved: the configured
\* one, or the names in the text of getCatalogs.
Resolved(entry) ==
    IF CDATA_CATALOG # NoCatalog THEN <<CDATA_CATALOG>>
    ELSE LET names == SweptNames(ParseCatalogNames(Chars(entry.catalogs_raw)))
         IN  [i \in DOMAIN names |-> NameString(names[i])]

\* What a request asks for.
Asked(req) ==
    [method |-> req.method, name |-> req.name,
     arguments |-> IF "arguments" \in DOMAIN req THEN req.arguments ELSE <<>>]

\* C21: with a catalog configured, no step sends a tools/call request named
\* getCatalogs; the get_catalogs tool names the configured catalog alone, and
\* a sweep asks for, and stores, the configured catalog alone.
C21_OverrideSkipsGetCatalogs ==
    [][CDATA_CATALOG # NoCatalog =>
           /\ \A i \in DOMAIN NewRequests : NewRequests[i].name # "getCatalogs"
           /\ \A i \in DOMAIN NewRequests :
                  "arguments" \in DOMAIN NewRequests[i] =>
                      NewRequests[i].arguments.catalogName = CDATA_CATALOG
           /\ SweepReturned =>
                  DOMAIN last'.out.val.catalogs = {"ty", CDATA_CATALOG}
           /\ (/\ last' # NotCalled
               /\ last'.op = "get_catalogs"
               /\ last'.out.kind = "return") =>
                  last'.out.val.arg = CDATA_CATALOG]_vars

\* C21: with the catalog AcmeCo configured, get_catalogs has sent the
\* handshake, and a sweep has then stored the catalog AcmeCo.
C21_Witness ==
    /\ CDATA_CATALOG = "AcmeCo"
    /\ last # NotCalled
    /\ last.op = "discover_and_cache"
    /\ last.out.kind = "return"
    /\ Len(sent) = 3
    /\ sent[1].op = "get_catalogs" /\ sent[1].method = "initialize"
    /\ sent[3].name = "getTables"
    /\ cache_file.exists /\ cache_file.content # Garbage

\* The requests of a sweep over the catalogs names that returns.
RECURSIVE CatalogRequests(_)
CatalogRequests(names) ==
    IF names = <<>> THEN <<>>
    ELSE <<[method |-> "tools/call", name |-> "getSchemas",
            arguments |-> [catalogName |-> Head(names)]],
           [method |-> "tools/call", name |-> "getTables",
            arguments |-> [catalogName |-> Head(names), schemaName |-> ""]]>>
             \o CatalogRequests(Tail(names))

\* C23: a sweep that returns has sent, in this order, the handshake if the
\* client was not initialized, getCatalogs if no catalog is configured, and
\* for each resolved catalog, in the order of the list, getSchemas and then
\* getTables with an empty schemaName, 2 * N requests for N catalogs; all of
\* them succeeded, and the file is written then, once.
C23_SweepOrder ==
    [][SweepReturned =>
           LET names == Resolved(last'.out.val)
               asked == [i \in DOMAIN NewRequests |-> Asked(NewRequests[i])]
               handshake == IF _initialized THEN <<>>
                            ELSE <<[method |-> "initialize", name |-> "-",
                                    arguments |-> <<>>]>>
               listing == IF CDATA_CATALOG # NoCatalog THEN <<>>
                          ELSE <<[method |-> "tools/call", name |-> "getCatalogs",
                                  arguments |-> <<>>]>>
           IN  /\ asked = handshake \o listing \o CatalogRequests(names)
               /\ Len(SelectSeq(NewRequests,
                                LAMBDA r : r.name \in {"getSchemas", "getTables"}))
                      = 2 * Len(names)
               /\ \A i \in DOMAIN NewRequests : NewRequests[i].ok
               /\ cache_file' = File(now, JsonDump(last'.out.val))]_vars

\* C23: a first sweep of a process with no catalog configured has returned
\* after six requests, for the catalogs AcmeCo and NordicEnergy.
C23_Witness ==
    /\ CDATA_CATALOG = NoCatalog
    /\ last # NotCalled
    /\ last.op = "discover_and_cache"
    /\ last.out.kind = "return"
    /\ Len(sent) = 6
    /\ sent[1].method = "initialize"
    /\ sent[2].name = "getCatalogs"
    /\ sent[4].name = "getTables" /\ sent[4].arguments.catalogName = "AcmeCo"
    /\ sent[5].name = "getSchemas" /\ sent[5].arguments.catalogName = "NordicEnergy"
    /\ cache_file.exists

\* C24: after a sweep that returns, the entry in the file is the one of this
\* sweep: its catalogs are those the sweep resolved, each with the schemas
\* and tables text of this sweep, and it has no other field than
\* discovered_at, catalogs and, with no catalog configured, catalogs_raw.
C24_FullReplace ==
    [][SweepReturned =>
           LET stored == Load(cache_file')
               entry == stored.val
               names == Resolved(entry)
           IN  /\ stored.kind = "return"
               /\ entry = last'.out.val
               /\ DOMAIN entry = {"ty", "discovered_at", "catalogs"}
                      \cup (IF CDATA_CATALOG # NoCatalog THEN {}
                            ELSE {"catalogs_raw"})
               /\ entry.discovered_at = PyFloat(now)
               /\ DOMAIN entry.catalogs =
                      {"ty"} \cup {names[i] : i \in DOMAIN names}
               /\ \A i \in DOMAIN names :
                      entry.catalogs[names[i]] =
                          [ty |-> "dict", schemas |-> EmptyDict,
                           schemas_raw |-> PyStr("schemas of " \o names[i]),
                           tables_raw |-> PyStr("tables of " \o names[i])]]_vars

\* C24: a sweep over the catalog OldCo has returned, and a later sweep over
\* AcmeCo and NordicEnergy has left these two in the file.
C24_Witness ==
    /\ last # NotCalled
    /\ last.op = "discover_and_cache"
    /\ last.out.kind = "return"
    /\ Len(sent) = 9
    /\ sent[4].name = "getTables" /\ sent[4].arguments.catalogName = "OldCo"
    /\ sent[4].ok
    /\ sent[9].name = "getTables" /\ sent[9].arguments.catalogName = "NordicEnergy"
    /\ cache_file.exists
    /\ DOMAIN Load(cache_file).val.catalogs = {"ty", "AcmeCo", "NordicEnergy"}

-----------------------------------------------------------------------------
\* Properties of the gather step (SpecGather).

\* A step of gather_node in which the agent has run.
GatherStep ==
    /\ last' # NotCalled
    /\ last'.op = "gather_node"
    /\ ~(/\ IsValid(cache_file, now, SCHEMA_CACHE_TTL)
         /\ Load(cache_file).kind = "raise")

\* The requests of a sweep among the new ones are those of one sweep: no
\* request is asked twice.
OneSweep ==
    \A i, j \in DOMAIN SweepRequests :
        i # j => Asked(SweepRequests[i]) # Asked(SweepRequests[j])

\* C26 as stated: a gather step that finds the cache valid, a cache hit,
\* sends no request of a sweep; a gather step sends the requests of at most
\* one sweep, and returns its data when that sweep fails.
C26_AsClaimed ==
    [][GatherStep =>
           /\ IsValid(cache_file, now, SCHEMA_CACHE_TTL) => SweepRequests = <<>>
           /\ OneSweep
           /\ SweepFailed => last'.out = Return(GatheredData)]_vars

\* C26, amended: a gather step sends the requests of a sweep exactly when
\* the cache is not valid after the agent has run, which a step that began
\* with a cache hit does when the entry expired during the run; it sends
\* those of at most one sweep, and returns its data when that sweep fails.
C26_SweepWhenStaleAtEnd ==
    [][GatherStep =>
           /\ SweepRequests # <<>> <=> ~IsValid(cache_file, now', SCHEMA_CACHE_TTL)
           /\ OneSweep
           /\ last'.out = Return(GatheredData)
           /\ SweepFailed => cache_file' = cache_file]_vars

\* C26: a gather step has returned its data although its sweep failed at the
\* getCatalogs request, and the stale file of an earlier run is still there.
C26_Witness ==
    /\ last # NotCalled
    /\ last.op = "gather_node"
    /\ last.out = Return(GatheredData)
    /\ Len(sent) = 2
    /\ sent[2].name = "getCatalogs" /\ sent[2].op = "discover_and_cache"
    /\ ~sent[2].ok
    /\ cache_file.exists
    /\ ~IsValid(cache_file, now, SCHEMA_CACHE_TTL)

-----------------------------------------------------------------------------
\* Properties of later claims on the sessions (Spec).

\* The counter of the client the process uses.
Counter == IF program = "graph" THEN _request_id ELSE request_id

\* What an operation of MCPClientProduction returns for a request that failed.
FailureValues == {Return(PyNone), Return(PyBool(FALSE)), Return(PyList(<<>>))}

\* C22: an operation sends each of its requests once, one HTTP request for
\* one id; a request that fails is the last one the operation sends, and the
\* operation ends with that failure: the error raised, in mcp_tools, and
\* None, False or [] in MCPClientProduction.
C22_NoRetries ==
    [][/\ \A i \in DOMAIN NewRequests : NewRequests[i].id = Counter + i
       /\ \A i, j \in DOMAIN NewRequests :
              i # j => Asked(NewRequests[i]) # Asked(NewRequests[j])
       /\ \A i \in DOMAIN NewRequests :
              ~NewRequests[i].ok =>
                  /\ i = Len(NewRequests)
                  /\ program = "graph" => last'.out.kind = "raise"
                  /\ program = "main" => last'.out \in FailureValues]_vars

\* C22: a tool of mcp_tools has raised the failure of its tools/call
\* request, the second and last request it sent.
C22_Witness ==
    /\ program = "graph"
    /\ last # NotCalled
    /\ last.out.kind = "raise"
    /\ Len(sent) = 2
    /\ sent[1].method = "initialize" /\ sent[1].ok
    /\ sent[2].method = "tools/call" /\ ~sent[2].ok
    /\ _request_id = 2

-----------------------------------------------------------------------------
\* Properties of the cache file under concurrent processes (SpecFile).

\* The entries a complete file of these runs can hold.
FileEntries == OldEntries \cup SavedEntries

\* The reader has called load.
Loaded == last # NotCalled /\ last.op = "load"

\* C27 as the claim states it: the load of the reader returns a complete
\* entry, the one before a save or the one saved.
C27_AsClaimed ==
    Loaded => last.out.kind = "return" /\ last.out.val \in FileEntries

\* A writer is between the open and the close of save.
Saving == \E p \in Writers : procs[p].pc = "writing"

\* C27: the load that follows is_valid returns a complete entry, an old or
\* a saved one, or raises JSONDecodeError; it returns one whenever no save
\* has opened the file, and whenever exactly one save has and it is closed.
C27_CompleteOrError ==
    [][(procs["reader"].pc = "valid" /\ procs'["reader"].pc = "ended") =>
           /\ last'.out.kind = "return" => last'.out.val \in FileEntries
           /\ last'.out.kind = "raise" =>
                  /\ last'.out.exc = "JSONDecodeError"
                  /\ \E p \in Writers : procs[p].pc # "idle"
           /\ (\A p \in Writers : procs[p].pc = "idle") =>
                  last'.out.val \in OldEntries
           /\ \A p \in Writers :
                  (/\ procs[p].pc = "closed"
                   /\ \A q \in Writers \ {p} : procs[q].pc = "idle") =>
                      last'.out = Return(procs[p].entry)]_vars

\* C27: the reader found the file valid and its load raised JSONDecodeError
\* on the first block of a document of two, while the save was under way.
C27_Witness ==
    /\ Loaded
    /\ last.out.kind = "raise"
    /\ last.out.exc = "JSONDecodeError"
    /\ Saving
    /\ Len(cache_file.bytes) = 1
    /\ cache_file.bytes[1].i = 1

\* C28 as the claim states it: when both saves are closed and their
\* entries differ, the file holds one of the two entries in full.
C28_AsClaimed ==
    ((\A p \in Writers : procs[p].pc = "closed")
       /\ procs["w1"].entry # procs["w2"].entry) =>
        \E p \in Writers : Load(cache_file) = Return(procs[p].entry)

-----------------------------------------------------------------------------
\* Properties of one client under two threads (SpecRace).

\* The threads that have entered their tool.
Entered == {t \in Callers : procs[t].pc # "idle"}

\* The positions of sent that hold a handshake.
Handshakes == {i \in DOMAIN sent : sent[i].method = "initialize"}

\* C29: two threads in send at the same time can send two requests with
\* the same id; while one thread alone has entered its tool, the ids of its
\* requests are 1, 2, ... in the order sent, each used once.
C29_UniqueWhenAlone ==
    Cardinality(Entered) <= 1 => \A i \in DOMAIN sent : sent[i].id = i

\* C29: both threads of MCPClientProduction have incremented the counter,
\* none of the increments was lost, and both requests carry the id 2.
C29_Witness ==
    /\ program = "main"
    /\ request_id = 2
    /\ Len(sent) = 2
    /\ sent[1].id = 2 /\ sent[2].id = 2
    /\ sent[1].thread # sent[2].thread

\* C30: two tool calls on a client that is not initialized can both send
\* the handshake; a thread sends it exactly when it finds the flag unset at
\* its test in _ensure_initialized, and the flag is set only by a thread
\* whose handshake has succeeded.
C30_HandshakeIffFlagUnset ==
    [][\A t \in Callers :
          /\ (procs[t].pc = "idle" /\ procs'[t].pc = "load" /\ program = "graph")
                 => (procs'[t].method = "initialize" <=> ~_initialized)
          /\ (procs[t].pc = "flag" /\ procs'[t].pc = "load") =>
                 /\ _initialized'
                 /\ \E i \in Handshakes : sent[i].thread = t /\ sent[i].ok
          /\ (~_initialized /\ _initialized') =>
                 \E u \in Callers : procs[u].pc = "flag"]_vars

\* C30: both threads have sent the handshake of the one client of
\* mcp_tools, both handshakes succeeded, and the flag is set.
C30_Witness ==
    /\ program = "graph"
    /\ _initialized
    /\ Cardinality(Handshakes) = 2
    /\ \A i \in Handshakes : sent[i].ok
    /\ \A i, j \in Handshakes : i # j => sent[i].thread # sent[j].thread

====
